---------------------------- MODULE Spec2Model ----------------------------
(***************************************************************************)
(* A model of the startup-validator pipeline: the orchestrator             *)
(* (src/src/main_orchestrator.py), the five agents it calls                *)
(* (src/src/agents/*.py) and the controller (src/src/agents/controller.py).*)
(*                                                                         *)
(* Conventions.                                                            *)
(*  - A Python str is a sequence of one-character strings, so that `in`,   *)
(*    lower() and the regular expressions of the source act on characters. *)
(*    A character outside ASCII is written by its code point ("U+2705").   *)
(*  - A Python float that holds a decimal figure is a decimal number       *)
(*    [m, e] standing for m * 10^e, or an integer in a stated fixed-point  *)
(*    unit (scores in hundredths, weights in hundredths, confidences in    *)
(*    hundredths).  Arithmetic is exact.  A binary float lies a hair above *)
(*    or below the decimal value it stands for, which decides how a value  *)
(*    exactly half-way rounds and whether a product that is a whole number *)
(*    truncates to that number or to the one below: float_up says on which *)
(*    side computed values lie, and both sides are explored.               *)
(*  - A Python dict is a function whose DOMAIN is the set of keys present. *)
(***************************************************************************)
EXTENDS Integers, Sequences, FiniteSets, TLC

VARIABLES
    pc,         \* validate_idea: the place the current call has reached
    idea,       \* validate_idea: the startup_idea argument of the current call
    cb,         \* validate_idea: whether a progress_callback was supplied
    env,        \* the search responses the current call will receive
    results,    \* validate_idea: the results dict
    calls,      \* history: the stages invoked by the current call, in order
    requests,   \* history: the search requests issued by the current call
    progress,   \* history: the percentages reported to the callback
    runs,       \* number of validate_idea calls started on this orchestrator
    prev,       \* history: inputs and outputs of the last completed call
    float_up,   \* floats: computed values lie at or above the exact ones
    tool,       \* tool bench: the function applied last
    arg,        \* tool bench: its argument
    ret,        \* tool bench: its result
    workflow_state, \* controller: status and validation_data
    executed,   \* history: tasks and fallbacks run by the last start_validation
    reply,      \* controller: what the last start_validation returned
    starts      \* number of start_validation calls on this controller

pipeVars == <<pc, idea, cb, env, results, calls, requests, progress, runs, prev>>
toolVars == <<tool, arg, ret>>
ctlVars == <<workflow_state, executed, reply, starts>>
vars == <<pc, idea, cb, env, results, calls, requests, progress, runs, prev,
          float_up, tool, arg, ret, workflow_state, executed, reply, starts>>

-----------------------------------------------------------------------------
(* Python str and dict primitives *)

UpperChars == <<"A", "B", "C", "D", "E", "F", "G", "H", "I", "J", "K", "L", "M", "N", "O", "P", "Q", "R", "S", "T", "U", "V", "W", "X", "Y", "Z">>
LowerChars == <<"a", "b", "c", "d", "e", "f", "g", "h", "i", "j", "k", "l", "m", "n", "o", "p", "q", "r", "s", "t", "u", "v", "w", "x", "y", "z">>
DigitChars == <<"0", "1", "2", "3", "4", "5", "6", "7", "8", "9">>

\* str.lower() on one character
LowerChar(c) ==
    IF \E i \in 1..Len(UpperChars) : UpperChars[i] = c
    THEN LowerChars[CHOOSE i \in 1..Len(UpperChars) : UpperChars[i] = c]
    ELSE c

\* str.lower()
Lower(s) == [i \in 1..Len(s) |-> LowerChar(s[i])]

\* `kw in s` for two str
Contains(s, kw) ==
    \E i \in 1..(Len(s) - Len(kw) + 1) : SubSeq(s, i, i + Len(kw) - 1) = kw

\* any(keyword in s for keyword in keywords)
ContainsAny(s, keywords) ==
    \E k \in 1..Len(keywords) : Contains(s, keywords[k])

\* s.startswith(prefix)
StartsWith(s, prefix) ==
    Len(s) >= Len(prefix) /\ SubSeq(s, 1, Len(prefix)) = prefix

\* d.get(key, default)
Get(d, key, default) == IF key \in DOMAIN d THEN d[key] ELSE default

\* the empty dict {}
EmptyDict == <<>>

RECURSIVE JoinWords(_)
\* ' '.join(words)
JoinWords(words) ==
    IF Len(words) = 0 THEN <<>>
    ELSE IF Len(words) = 1 THEN words[1]
    ELSE words[1] \o <<" ">> \o JoinWords(Tail(words))

-----------------------------------------------------------------------------
(* Rounding.  A value in thousandths rounded to one decimal, returned in    *)
(* hundredths: round(x, 1).                                                 *)

RoundOneDecimal(thousandths) ==
    LET low == thousandths \div 100
        rest == thousandths % 100
    IN  IF rest < 50 THEN low * 10
        ELSE IF rest > 50 THEN (low + 1) * 10
        ELSE IF float_up THEN (low + 1) * 10 ELSE low * 10

-----------------------------------------------------------------------------
(* Strategy advisor: src/src/agents/strategy_advisor.py                     *)
(* Scores are in hundredths (7.5 is 750), weights in hundredths (0.25 is 25)*)

EmojiGo == "U+2705"
EmojiPivotSign == "U+26A0"
EmojiPivotSelector == "U+FE0F"
EmojiNoGo == "U+274C"

VerdictGo == <<"G", "O", " ">> \o <<EmojiGo>>
VerdictPivot == <<"P", "I", "V", "O", "T", " ">> \o <<EmojiPivotSign, EmojiPivotSelector>>
VerdictNoGo == <<"N", "O", "-", "G", "O", " ">> \o <<EmojiNoGo>>

GoThreshold == 750
PivotThreshold == 500

AdvisorWeightKeys ==
    <<"market_size", "competition", "technical_feasibility",
      "financial_viability", "timing">>

AdvisorWeights ==
    [market_size |-> 25, competition |-> 20, technical_feasibility |-> 20,
     financial_viability |-> 20, timing |-> 15]

AdvisorScores ==
    [market_size |-> 750, competition |-> 600, technical_feasibility |-> 800,
     financial_viability |-> 700, timing |-> 750]

AdvisorConfidence == 85
AdvisorErrorScore == 650

RECURSIVE WeightedSum(_, _, _)
\* sum(values[key] * weights[key] for key in keys): hundredths * hundredths
WeightedSum(keys, values, weights) ==
    IF Len(keys) = 0 THEN 0
    ELSE values[Head(keys)] * weights[Head(keys)]
         + WeightedSum(Tail(keys), values, weights)

\* calculate_validation_score(analysis_data): analysis_data is a str that
\* holds a JSON document ("json"), a str with no '{' in it ("no_brace"), or a
\* str with a '{' that json.loads rejects ("malformed").  The rounded sum is
\* exact in thousandths: hundredths * hundredths / 10.
AdvisorCalculateValidationScore(analysis_data) ==
    IF analysis_data = "malformed"
    THEN [overall_score |-> AdvisorErrorScore, error |-> "JSONDecodeError"]
    ELSE LET total == WeightedSum(AdvisorWeightKeys, AdvisorScores,
                                  AdvisorWeights) \div 10
         IN  [overall_score |-> RoundOneDecimal(total),
              component_scores |-> AdvisorScores,
              confidence |-> AdvisorConfidence]

RecommendationsGo ==
    <<"Proceed with MVP development", "Focus on rapid market entry",
      "Secure seed funding", "Build core team",
      "Establish early customer relationships">>

RecommendationsPivot ==
    <<"Refine value proposition", "Focus on underserved niche",
      "Reduce initial scope", "Validate with potential customers",
      "Consider alternative business models">>

RecommendationsNoGo ==
    <<"Reconsider the fundamental concept", "Research alternative markets",
      "Explore different problem spaces", "Join an accelerator for guidance",
      "Consider partnering with existing players">>

KeySuccessFactors == <<"Strong execution", "Customer focus", "Rapid iteration">>

GenerateRecommendationsStrict(score) ==
    LET choice == IF score > GoThreshold THEN "go"
                  ELSE IF score >= PivotThreshold THEN "pivot" ELSE "nogo"
    IN  [verdict |-> CASE choice = "go" -> VerdictGo
                       [] choice = "pivot" -> VerdictPivot
                       [] OTHER -> VerdictNoGo,
         recommendations |-> CASE choice = "go" -> RecommendationsGo
                               [] choice = "pivot" -> RecommendationsPivot
                               [] OTHER -> RecommendationsNoGo,
         key_success_factors |-> KeySuccessFactors]

\* generate_recommendations(score)
GenerateRecommendations(score) ==
    LET choice == IF score >= GoThreshold THEN "go"
                  ELSE IF score >= PivotThreshold THEN "pivot" ELSE "nogo"
    IN  [verdict |-> CASE choice = "go" -> VerdictGo
                       [] choice = "pivot" -> VerdictPivot
                       [] OTHER -> VerdictNoGo,
         recommendations |-> CASE choice = "go" -> RecommendationsGo
                               [] choice = "pivot" -> RecommendationsPivot
                               [] OTHER -> RecommendationsNoGo,
         key_success_factors |-> KeySuccessFactors]

PlanGo ==
    [immediate_actions |->
        <<"Validate with 20 potential customers", "Build technical prototype",
          "Form founding team", "Apply to accelerators">>,
     goals_30_day |->
        <<"Complete customer interviews", "Finalize MVP features",
          "Secure technical co-founder">>,
     goals_90_day |->
        <<"Launch MVP", "Acquire first 100 users", "Raise pre-seed funding">>]

PlanPivot ==
    [immediate_actions |->
        <<"Identify specific niche to target", "Revise value proposition",
          "Survey target customers">>,
     goals_30_day |->
        <<"Complete pivot strategy", "Test new positioning",
          "Update business model">>,
     goals_90_day |->
        <<"Launch revised MVP", "Measure traction metrics",
          "Decide on path forward">>]

PlanNoGo ==
    [immediate_actions |->
        <<"Document lessons learned", "Explore adjacent opportunities",
          "Network with other entrepreneurs">>,
     goals_30_day |->
        <<"Generate new ideas", "Join startup community",
          "Find mentor or advisor">>,
     goals_90_day |->
        <<"Validate new concept", "Build skills in weak areas",
          "Consider joining existing startup">>]

\* create_action_plan(verdict): the keys '30_day_goals' and '90_day_goals'
\* are written goals_30_day and goals_90_day
CreateActionPlan(verdict) ==
    IF Contains(verdict, <<"G", "O">>) THEN PlanGo
    ELSE IF Contains(verdict, <<"P", "I", "V", "O", "T">>) THEN PlanPivot
    ELSE PlanNoGo

\* generate_html_report of app_ultimate.py: the CSS class and colour chosen
\* for the verdict of the summary
VerdictStyle(verdict) ==
    IF Contains(verdict, <<"G", "O">>)
    THEN [verdict_class |-> "verdict-go", verdict_color |-> "#10B981"]
    ELSE IF Contains(verdict, <<"P", "I", "V", "O", "T">>)
    THEN [verdict_class |-> "verdict-pivot", verdict_color |-> "#F59E0B"]
    ELSE [verdict_class |-> "verdict-nogo", verdict_color |-> "#EF4444"]

\* StrategyAdvisorAgent.synthesize(all_analyses): all_analyses is serialised
\* with json.dumps, so the score tool always receives a JSON document
Synthesize(all_analyses) ==
    LET score_result == AdvisorCalculateValidationScore("json")
        recommendations == GenerateRecommendations(score_result.overall_score)
    IN  [score |-> score_result.overall_score,
         verdict |-> recommendations.verdict,
         recommendations |-> recommendations.recommendations,
         action_plan |-> CreateActionPlan(recommendations.verdict),
         key_success_factors |-> recommendations.key_success_factors,
         confidence |-> AdvisorConfidence]

-----------------------------------------------------------------------------
(* Controller: src/src/agents/controller.py                                 *)

ControllerWeightKeys ==
    <<"market_validation", "competitor_analysis", "technical_feasibility",
      "financial_analysis", "strategy_synthesis">>

ControllerWeightsHeavy ==
    [market_validation |-> 40, competitor_analysis |-> 20,
     technical_feasibility |-> 20, financial_analysis |-> 20,
     strategy_synthesis |-> 10]

ControllerWeights ==
    [market_validation |-> 30, competitor_analysis |-> 20,
     technical_feasibility |-> 20, financial_analysis |-> 20,
     strategy_synthesis |-> 10]

DefaultConfidence == 50

RECURSIVE ControllerTotal(_, _)
\* the loop of _calculate_validation_score: total_score in thousandths
\* (confidence in hundredths * weight in hundredths = confidence * weight * 10
\* in thousandths)
ControllerTotal(keys, data) ==
    IF Len(keys) = 0 THEN 0
    ELSE LET key == Head(keys)
             counted == key \in DOMAIN data /\ DOMAIN data[key] # {}
         IN  (IF counted
              THEN Get(data[key], "confidence", DefaultConfidence)
                   * ControllerWeights[key]
              ELSE 0)
             + ControllerTotal(Tail(keys), data)

\* ControllerAgent._calculate_validation_score(data)
ControllerCalculateValidationScore(data) ==
    RoundOneDecimal(ControllerTotal(ControllerWeightKeys, data))

\* ControllerAgent._determine_verdict(score)
DetermineVerdict(score) ==
    IF score >= GoThreshold THEN VerdictGo
    ELSE IF score >= PivotThreshold THEN VerdictPivot
    ELSE VerdictNoGo

-----------------------------------------------------------------------------
(* Technical architect: src/src/agents/technical_architect.py               *)

LevelHigh == <<"h", "i", "g", "h">>
LevelMedium == <<"m", "e", "d", "i", "u", "m">>
LevelLow == <<"l", "o", "w">>

\* the keys of complexity_indicators, in the order the dict is written
ComplexityLevels == <<LevelHigh, LevelMedium, LevelLow>>

HighKeywords ==
    <<<<"a", "i">>, <<"m", "a", "c", "h", "i", "n", "e", " ", "l", "e", "a", "r", "n", "i", "n", "g">>, <<"b", "l", "o", "c", "k", "c", "h", "a", "i", "n">>, <<"a", "r">>, <<"v", "r">>,
      <<"q", "u", "a", "n", "t", "u", "m">>, <<"a", "u", "t", "o", "n", "o", "m", "o", "u", "s">>, <<"r", "o", "b", "o", "t", "i", "c", "s">>, <<"d", "e", "e", "p", " ", "l", "e", "a", "r", "n", "i", "n", "g">>,
      <<"n", "e", "u", "r", "a", "l">>>>

MediumKeywords ==
    <<<<"m", "a", "r", "k", "e", "t", "p", "l", "a", "c", "e">>, <<"p", "l", "a", "t", "f", "o", "r", "m">>, <<"a", "p", "p">>, <<"s", "a", "a", "s">>, <<"a", "p", "i">>,
      <<"i", "n", "t", "e", "g", "r", "a", "t", "i", "o", "n">>, <<"a", "n", "a", "l", "y", "t", "i", "c", "s">>, <<"d", "a", "s", "h", "b", "o", "a", "r", "d">>, <<"a", "u", "t", "o", "m", "a", "t", "i", "o", "n">>,
      <<"c", "l", "o", "u", "d">>>>

LowKeywords ==
    <<<<"w", "e", "b", "s", "i", "t", "e">>, <<"b", "l", "o", "g">>, <<"l", "a", "n", "d", "i", "n", "g", " ", "p", "a", "g", "e">>, <<"n", "e", "w", "s", "l", "e", "t", "t", "e", "r">>,
      <<"d", "i", "r", "e", "c", "t", "o", "r", "y">>, <<"s", "i", "m", "p", "l", "e">>, <<"b", "a", "s", "i", "c">>, <<"s", "t", "a", "t", "i", "c">>>>

ComplexityIndicators ==
    (LevelHigh :> HighKeywords) @@ (LevelMedium :> MediumKeywords)
    @@ (LevelLow :> LowKeywords)

ComplexityScores == (LevelHigh :> 8) @@ (LevelMedium :> 5) @@ (LevelLow :> 3)

DefaultComplexityScore == 5

RECURSIVE FirstMatchingLevel(_, _)
\* the for loop of assess_technical_complexity over the remaining levels:
\* the first level one of whose keywords is in idea_lower, or <<>> for none
FirstMatchingLevel(levels, idea_lower) ==
    IF Len(levels) = 0 THEN <<>>
    ELSE IF ContainsAny(idea_lower, ComplexityIndicators[Head(levels)])
         THEN Head(levels)
         ELSE FirstMatchingLevel(Tail(levels), idea_lower)

AssessTechnicalComplexityLowFirst(idea_text) ==
    LET found == FirstMatchingLevel(<<LevelLow, LevelMedium, LevelHigh>>,
                                    Lower(idea_text))
    IN  IF found = <<>>
        THEN [complexity |-> LevelMedium, score |-> DefaultComplexityScore]
        ELSE [complexity |-> found, score |-> ComplexityScores[found]]

\* assess_technical_complexity(idea)
AssessTechnicalComplexity(idea_text) ==
    LET found == FirstMatchingLevel(ComplexityLevels, Lower(idea_text))
    IN  IF found = <<>>
        THEN [complexity |-> LevelMedium, score |-> DefaultComplexityScore]
        ELSE [complexity |-> found, score |-> ComplexityScores[found]]

\* recommend_tech_stack(idea)
RecommendTechStack(idea_text) ==
    LET idea_lower == Lower(idea_text)
        mobile == Contains(idea_lower, <<"m", "o", "b", "i", "l", "e">>)
                  \/ Contains(idea_lower, <<"a", "p", "p">>)
        ml == Contains(idea_lower, <<"a", "i">>)
              \/ Contains(idea_lower, <<"m", "a", "c", "h", "i", "n", "e", " ", "l", "e", "a", "r", "n", "i", "n", "g">>)
        realtime == Contains(idea_lower, <<"r", "e", "a", "l", "-", "t", "i", "m", "e">>)
                    \/ Contains(idea_lower, <<"l", "i", "v", "e">>)
        payments == Contains(idea_lower, <<"m", "a", "r", "k", "e", "t", "p", "l", "a", "c", "e">>)
                    \/ Contains(idea_lower, <<"p", "a", "y", "m", "e", "n", "t">>)
    IN  [frontend |-> "React/Next.js",
         backend |-> IF ml THEN "Python FastAPI" ELSE "Node.js/Python FastAPI",
         database |-> "PostgreSQL",
         hosting |-> "AWS/Vercel",
         additional |->
            (IF mobile THEN <<"Push notifications">> ELSE <<>>)
            \o (IF ml THEN <<"GPU infrastructure">> ELSE <<>>)
            \o (IF realtime THEN <<"Redis for caching">> ELSE <<>>)
            \o (IF payments THEN <<"Payment processing">> ELSE <<>>)]
        @@ (IF mobile THEN [mobile |-> "React Native or Flutter"] ELSE EmptyDict)
        @@ (IF ml THEN [ml |-> "TensorFlow/PyTorch"] ELSE EmptyDict)
        @@ (IF realtime THEN [realtime |-> "WebSockets/Socket.io"] ELSE EmptyDict)
        @@ (IF payments THEN [payments |-> "Stripe/PayPal"] ELSE EmptyDict)

Timelines ==
    (LevelLow :> [mvp |-> "1-2 months", beta |-> "2-3 months",
                  launch |-> "3-4 months", team_size |-> "1-2 developers"])
    @@ (LevelMedium :> [mvp |-> "3-4 months", beta |-> "4-6 months",
                        launch |-> "6-8 months", team_size |-> "2-4 developers"])
    @@ (LevelHigh :> [mvp |-> "6-8 months", beta |-> "8-10 months",
                      launch |-> "10-12 months", team_size |-> "4-8 developers"])

\* estimate_development_timeline(complexity)
EstimateDevelopmentTimeline(complexity) ==
    IF Lower(complexity) \in DOMAIN Timelines
    THEN Timelines[Lower(complexity)]
    ELSE Timelines[LevelMedium]

TechnicalConfidence == 85

\* TechnicalArchitectAgent.analyze(startup_idea)
TechnicalAnalyze(startup_idea) ==
    LET complexity_result == AssessTechnicalComplexity(startup_idea)
    IN  [complexity |-> complexity_result,
         tech_stack |-> RecommendTechStack(startup_idea),
         timeline |-> EstimateDevelopmentTimeline(complexity_result.complexity),
         confidence |-> TechnicalConfidence]

-----------------------------------------------------------------------------
(* Decimal numbers.  A float that holds a decimal figure is [m, e], standing *)
(* for m * 10^e with m >= 0, kept without trailing zeros in m, so that two   *)
(* numbers are equal exactly when their records are.                         *)

RECURSIVE Pow10(_)
Pow10(n) == IF n <= 0 THEN 1 ELSE 10 * Pow10(n - 1)

RECURSIVE Norm(_)
Norm(d) ==
    IF d.m = 0 THEN [m |-> 0, e |-> 0]
    ELSE IF d.m % 10 = 0 THEN Norm([m |-> d.m \div 10, e |-> d.e + 1])
    ELSE d

Dec(m, e) == Norm([m |-> m, e |-> e])

\* d * k * 10^shift
DecScale(d, k, shift) == Dec(d.m * k, d.e + shift)

\* a * b
DecTimes(a, b) == Dec(a.m * b.m, a.e + b.e)

RECURSIVE NumDigits(_)
NumDigits(n) == IF n < 10 THEN 1 ELSE 1 + NumDigits(n \div 10)

\* a < b, comparing the orders of magnitude first so that the mantissas are
\* only aligned when they are at most a few digits apart
DecLess(a, b) ==
    IF b.m = 0 THEN FALSE
    ELSE IF a.m = 0 THEN TRUE
    ELSE IF NumDigits(a.m) + a.e # NumDigits(b.m) + b.e
         THEN NumDigits(a.m) + a.e < NumDigits(b.m) + b.e
         ELSE LET low == IF a.e < b.e THEN a.e ELSE b.e
              IN  a.m * Pow10(a.e - low) < b.m * Pow10(b.e - low)

DecLessEq(a, b) == a = b \/ DecLess(a, b)

\* int(x) for x >= 0: the integer part
DecFloor(d) ==
    IF d.e >= 0 THEN d
    ELSE IF -d.e > 9 THEN Dec(0, 0)
    ELSE Dec(d.m \div Pow10(-d.e), 0)

\* int(x) for a computed product x >= 0, as [whole, below], standing for
\* whole - below: a product that is exactly a whole number may have been
\* computed just below it
Truncate(d) ==
    [whole |-> DecFloor(d),
     below |-> IF d.e >= 0 /\ d.m # 0 /\ ~float_up THEN 1 ELSE 0]

\* m / 10^p rounded to an integer
RoundShift(m, p) ==
    IF p > 9 THEN 0
    ELSE LET q == m \div Pow10(p)
             r == m % Pow10(p)
         IN  IF 2 * r < Pow10(p) THEN q
             ELSE IF 2 * r > Pow10(p) THEN q + 1
             ELSE IF float_up THEN q + 1 ELSE q

\* d / 10^unit rounded to one decimal, in tenths
TenthsOf(d, unit) ==
    LET k == d.e - unit + 1
    IN  IF k >= 0 THEN d.m * Pow10(k) ELSE RoundShift(d.m, -k)

RECURSIVE IntToStr(_)
\* str(n) for n >= 0
IntToStr(n) ==
    IF n < 10 THEN <<DigitChars[n + 1]>>
    ELSE IntToStr(n \div 10) \o <<DigitChars[(n % 10) + 1]>>

\* f"{x:.1f}" for x given in tenths
OneDecimal(tenths) ==
    IntToStr(tenths \div 10) \o <<".">> \o <<DigitChars[(tenths % 10) + 1]>>

RECURSIVE WithCommas(_)
\* f"{n:,}" for an integer n >= 0
WithCommas(n) ==
    IF n < 1000 THEN IntToStr(n)
    ELSE LET rest == n % 1000
         IN  WithCommas(n \div 1000) \o <<",">>
             \o <<DigitChars[(rest \div 100) + 1],
                  DigitChars[((rest \div 10) % 10) + 1],
                  DigitChars[(rest % 10) + 1]>>

Billion == Dec(1, 9)

\* f"${v/1_000_000_000:.1f}B" if v >= 1_000_000_000 else f"${v/1_000_000:.1f}M"
FormatAmount(v) ==
    IF DecLess(v, Billion)
    THEN <<"$">> \o OneDecimal(TenthsOf(v, 6)) \o <<"M">>
    ELSE <<"$">> \o OneDecimal(TenthsOf(v, 9)) \o <<"B">>

\* the first n items of a list: seq[:n]
Take(seq, n) == IF Len(seq) <= n THEN seq ELSE SubSeq(seq, 1, n)

\* None
None == [none |-> TRUE]

\* bool(x) for x a float or None
Truthy(x) == "m" \in DOMAIN x /\ x.m # 0

-----------------------------------------------------------------------------
(* Search requests.  A request is [tool, query]; a response is               *)
(* [raises, status_code, body]: requests.post raised, or answered with the   *)
(* status code and, for 200, the body.  A body is given by what the regular  *)
(* expressions of the source find in it, not by its text.                    *)

Request(tool_name, kind, about) ==
    [tool |-> tool_name, query |-> [kind |-> kind, about |-> about]]

\* one requests.post: the entry the call leaves in the request log
Post(request, response) ==
    [request |-> request,
     outcome |-> IF response.raises THEN "raised"
                 ELSE IF response.status_code = 200 THEN "ok"
                 ELSE "refused"]

-----------------------------------------------------------------------------
(* Market analyst: src/src/agents/market_analyst_fixed.py                   *)

\* the keys of baselines in the order the dict is written
BaselineKeys ==
    <<<<"a", "i">>, <<"f", "i", "n", "t", "e", "c", "h">>, <<"h", "e", "a", "l", "t", "h", "t", "e", "c", "h">>, <<"e", "d", "t", "e", "c", "h">>, <<"e", "c", "o", "m", "m", "e", "r", "c", "e">>,
      <<"s", "a", "a", "s">>, <<"m", "e", "a", "l">>, <<"f", "o", "o", "d">>, <<"s", "u", "s", "t", "a", "i", "n", "a", "b", "i", "l", "i", "t", "y">>, <<"n", "u", "t", "r", "i", "t", "i", "o", "n">>,
      <<"d", "i", "a", "b", "e", "t", "e", "s">>>>

\* baselines, in billions
Baselines ==
    (<<"a", "i">> :> Dec(200, 0)) @@ (<<"f", "i", "n", "t", "e", "c", "h">> :> Dec(380, 0))
    @@ (<<"h", "e", "a", "l", "t", "h", "t", "e", "c", "h">> :> Dec(450, 0)) @@ (<<"e", "d", "t", "e", "c", "h">> :> Dec(300, 0))
    @@ (<<"e", "c", "o", "m", "m", "e", "r", "c", "e">> :> Dec(5000, 0)) @@ (<<"s", "a", "a", "s">> :> Dec(195, 0))
    @@ (<<"m", "e", "a", "l">> :> Dec(100, 0)) @@ (<<"f", "o", "o", "d">> :> Dec(2000, 0))
    @@ (<<"s", "u", "s", "t", "a", "i", "n", "a", "b", "i", "l", "i", "t", "y">> :> Dec(250, 0)) @@ (<<"n", "u", "t", "r", "i", "t", "i", "o", "n">> :> Dec(158, -1))
    @@ (<<"d", "i", "a", "b", "e", "t", "e", "s">> :> Dec(450, 0))

DefaultBaseline == Dec(100, 0)

RECURSIVE FirstKeyIn(_, _)
\* the first of the keys that is contained in text, or <<>>
FirstKeyIn(keys, text) ==
    IF Len(keys) = 0 THEN <<>>
    ELSE IF Contains(text, Head(keys)) THEN Head(keys)
    ELSE FirstKeyIn(Tail(keys), text)

\* MarketAnalystAgent._get_industry_baseline(industry)
GetIndustryBaseline(industry) ==
    LET key == FirstKeyIn(BaselineKeys, Lower(industry))
    IN  IF key = <<>> THEN DefaultBaseline ELSE Baselines[key]

Industries ==
    <<<<"f", "i", "n", "t", "e", "c", "h">>, <<"h", "e", "a", "l", "t", "h", "t", "e", "c", "h">>, <<"e", "d", "t", "e", "c", "h">>, <<"e", "c", "o", "m", "m", "e", "r", "c", "e">>, <<"s", "a", "a", "s">>,
      <<"a", "i">>, <<"m", "e", "a", "l">>, <<"f", "o", "o", "d">>, <<"a", "p", "p">>, <<"n", "u", "t", "r", "i", "t", "i", "o", "n">>, <<"d", "i", "a", "b", "e", "t", "e", "s">>,
      <<"s", "u", "s", "t", "a", "i", "n", "a", "b", "i", "l", "i", "t", "y">>, <<"f", "a", "s", "h", "i", "o", "n">>, <<"t", "r", "a", "v", "e", "l">>, <<"g", "a", "m", "i", "n", "g">>, <<"s", "o", "c", "i", "a", "l">>,
      <<"m", "a", "r", "k", "e", "t", "p", "l", "a", "c", "e">>>>

\* MarketAnalystAgent._extract_industry(idea)
ExtractIndustry(idea_text) ==
    LET found == FirstKeyIn(Industries, Lower(idea_text))
    IN  IF found = <<>> THEN <<"g", "e", "n", "e", "r", "a", "l">> ELSE found

MaxInsights == 5
MaxInsightNumbers == 3

\* the insight search_market_data keeps for one organic result
InsightOf(result) ==
    [billion_patterns |-> result.billion_patterns,
     million_patterns |-> result.million_patterns,
     numbers |-> Take(result.numbers, MaxInsightNumbers)]

RECURSIVE OrganicInsights(_)
\* the loop over data['organic'][:5]: a result is kept when numbers were
\* found in its snippet or the snippet mentions 'market'
OrganicInsights(organic) ==
    IF Len(organic) = 0 THEN <<>>
    ELSE (IF Len(Head(organic).numbers) > 0 \/ Head(organic).mentions_market
          THEN <<InsightOf(Head(organic))>> ELSE <<>>)
         \o OrganicInsights(Tail(organic))

\* search_market_data(query) with the API key set or not, and the response
\* the request would receive: the tool's result and the requests it issued
SearchMarketData(query, has_key, response) ==
    IF ~has_key
    THEN [result |-> [error |-> "No Serper API key found"], requests |-> <<>>]
    ELSE LET request == Request("search_market_data", "market_size", query)
             log == <<Post(request, response)>>
         IN  IF response.raises
             THEN [result |-> [error |-> "Search error"], requests |-> log]
             ELSE IF response.status_code = 200
             THEN LET organic == OrganicInsights(
                                    Take(response.body.organic, MaxInsights))
                      insights == response.body.answer \o organic
                  IN  [result |->
                          [market_insights |-> Take(insights, MaxInsights),
                           search_successful |-> TRUE],
                       requests |-> log]
             ELSE [result |-> [error |-> "Search failed",
                               status_code |-> response.status_code],
                   requests |-> log]

BillionExponent == 9
MillionExponent == 6

\* the for loop over the numbers of one insight: the value of the first
\* number with a B or an M in it; float() raising ends the whole extraction
RECURSIVE NumbersValue(_)
NumbersValue(numbers) ==
    IF Len(numbers) = 0 THEN [raised |-> FALSE, value |-> None]
    ELSE LET num == Head(numbers)
         IN  IF ~num.is_float THEN [raised |-> TRUE, value |-> None]
             ELSE IF num.unit = "B"
             THEN [raised |-> FALSE,
                   value |-> DecScale(num.value, 1, BillionExponent)]
             ELSE IF num.unit = "M"
             THEN [raised |-> FALSE, value |-> DecScale(num.value, 1, MillionExponent)]
             ELSE NumbersValue(Tail(numbers))

RECURSIVE InsightsValue(_, _)
\* the for loop over insights, entered with the current tam_value
InsightsValue(insights, tam_value) ==
    IF Len(insights) = 0 THEN tam_value
    ELSE LET insight == Head(insights)
         IN  IF Len(insight.billion_patterns) > 0
             THEN DecScale(insight.billion_patterns[1], 1, BillionExponent)
             ELSE IF Len(insight.million_patterns) > 0
             THEN DecScale(insight.million_patterns[1], 1, MillionExponent)
             ELSE LET found == NumbersValue(insight.numbers)
                      now == IF found.value = None THEN tam_value
                             ELSE found.value
                  IN  IF found.raised THEN None
                      ELSE IF Truthy(now) THEN now
                      ELSE InsightsValue(Tail(insights), now)

\* the inner try of calculate_tam_sam_som: market_data is the str argument,
\* [kind, doc] with kind "json" (doc is the parsed document) or "malformed"
ExtractTamValue(market_data) ==
    IF market_data.kind = "malformed" THEN None
    ELSE InsightsValue(Get(market_data.doc, "market_insights", <<>>), None)

ServiceableMarketFifth(tam_value) == DecScale(tam_value, 2, -1)

\* sam = tam_value * 0.15
ServiceableMarket(tam_value) == DecScale(tam_value, 15, -2)

\* som = sam * 0.05
ObtainableMarket(sam) == DecScale(sam, 5, -2)

FallbackTamSamSom ==
    [TAM |-> [value |-> Dec(100000, 6), formatted |-> <<"$", "1", "0", "0", ".", "0", "B">>],
     SAM |-> [value |-> Dec(15000, 6), formatted |-> <<"$", "1", "5", ".", "0", "B">>],
     SOM |-> [value |-> Dec(750, 6), formatted |-> <<"$", "7", "5", "0", ".", "0", "M">>],
     data_source |-> "fallback",
     error |-> "AttributeError"]

\* calculate_tam_sam_som(industry, market_data).
\* industry is [is_str, text]; market_data is [kind, doc] with kind "none"
\* (None), "empty" (''), "json" or "malformed".
CalculateTamSamSom(industry, market_data) ==
    LET given == market_data.kind \notin {"none", "empty"}
        found == IF given THEN ExtractTamValue(market_data) ELSE None
    IN  IF ~Truthy(found) /\ ~industry.is_str
        THEN FallbackTamSamSom
        ELSE LET tam_value == IF Truthy(found) THEN found
                              ELSE DecScale(GetIndustryBaseline(industry.text),
                                            1, BillionExponent)
                 sam == ServiceableMarket(tam_value)
                 som == ObtainableMarket(sam)
             IN  [TAM |-> [value |-> tam_value,
                            formatted |-> FormatAmount(tam_value)],
                  SAM |-> [value |-> sam, formatted |-> FormatAmount(sam)],
                  SOM |-> [value |-> som, formatted |-> FormatAmount(som)],
                  data_source |-> IF given /\ Truthy(tam_value)
                                  THEN "real_search" ELSE "industry_baseline"]

RECURSIVE GrowthRates(_)
\* the growth rates (in tenths of a percent) of all organic results, those
\* with 0 < value < 100 only
GrowthRates(organic) ==
    IF Len(organic) = 0 THEN <<>>
    ELSE SelectSeq(Head(organic).percentages, LAMBDA v : 0 < v /\ v < 1000)
         \o GrowthRates(Tail(organic))

RECURSIVE SumSeq(_)
SumSeq(seq) == IF Len(seq) = 0 THEN 0 ELSE Head(seq) + SumSeq(Tail(seq))

DefaultGrowth == 150

\* the market phase of an average growth rate sum / count (tenths of a percent)
MarketPhase(sum, count) ==
    IF sum > 250 * count THEN "Explosive Growth"
    ELSE IF sum > 150 * count THEN "High Growth"
    ELSE IF sum > 100 * count THEN "Growth"
    ELSE IF sum > 50 * count THEN "Moderate Growth"
    ELSE "Mature"

\* analyze_market_trends(market)
AnalyzeMarketTrends(market, has_key, response) ==
    IF ~has_key
    THEN [result |-> [error |-> "No Serper API key"], requests |-> <<>>]
    ELSE LET request == Request("analyze_market_trends", "market_trends", market)
             log == <<Post(request, response)>>
         IN  IF response.raises
             THEN [result |-> [error |-> "Trend analysis error"],
                   requests |-> log]
             ELSE IF response.status_code = 200
             THEN LET growth_rates == GrowthRates(response.body.organic)
                      sum == IF Len(growth_rates) = 0 THEN DefaultGrowth
                             ELSE SumSeq(growth_rates)
                      count == IF Len(growth_rates) = 0 THEN 1
                               ELSE Len(growth_rates)
                  IN  [result |->
                          [market_phase |-> MarketPhase(sum, count),
                           growth_rates_found |-> Take(growth_rates, 3),
                           data_quality |-> IF Len(growth_rates) >= 3
                                            THEN "high" ELSE "medium"],
                       requests |-> log]
             ELSE [result |-> [error |-> "Trend search failed",
                               status_code |-> response.status_code],
                   requests |-> log]

RealWebSearch == <<"R", "e", "a", "l", " ", "w", "e", "b", " ", "s", "e", "a", "r", "c", "h", " ", "v", "i", "a", " ", "S", "e", "r", "p", "e", "r", " ", "A", "P", "I">>
IndustryBaselines == <<"I", "n", "d", "u", "s", "t", "r", "y", " ", "b", "a", "s", "e", "l", "i", "n", "e", "s">>

MarketConfidenceReal == 90
MarketConfidenceFallback == 60

MarketAnalyzeKeyRequired(startup_idea, has_key, responses) ==
    LET search == SearchMarketData(startup_idea, has_key, responses.market_size)
    IN  [result |-> IF has_key
                    THEN [market_research |-> search.result,
                          confidence |-> MarketConfidenceReal]
                    ELSE [market_research |-> search.result],
         requests |-> search.requests]

\* MarketAnalystAgent.analyze(startup_idea): the result and the requests
\* issued
MarketAnalyze(startup_idea, has_key, responses) ==
    LET search == SearchMarketData(startup_idea, has_key, responses.market_size)
        market_data == search.result
        industry == [is_str |-> TRUE, text |-> ExtractIndustry(startup_idea)]
        trends == AnalyzeMarketTrends(startup_idea, has_key,
                                      responses.market_trends)
        has_real_data == Get(market_data, "search_successful", FALSE)
    IN  [result |->
            [market_opportunity |->
                CalculateTamSamSom(industry,
                                   [kind |-> "json", doc |-> market_data]),
             market_research |-> market_data,
             trends |-> trends.result,
             confidence |-> IF has_real_data THEN MarketConfidenceReal
                            ELSE MarketConfidenceFallback,
             data_source |-> IF has_real_data THEN RealWebSearch
                             ELSE IndustryBaselines],
         requests |-> search.requests \o trends.requests]

-----------------------------------------------------------------------------
(* Competitor researcher: src/src/agents/competitor_researcher_fixed.py     *)

\* str.upper() on one character
UpperChar(c) ==
    IF \E i \in 1..Len(LowerChars) : LowerChars[i] = c
    THEN UpperChars[CHOOSE i \in 1..Len(LowerChars) : LowerChars[i] = c]
    ELSE c

\* str.capitalize()
Capitalize(s) ==
    [i \in 1..Len(s) |-> IF i = 1 THEN UpperChar(s[1]) ELSE LowerChar(s[i])]

MaxCompetitors == 10
FollowUpBelow == 3
FollowUpCap == 5
MinNameLength == 3
MaxDetailed == 3

\* the lower-cased names of a list of competitors: seen_names
SeenNames(competitors) ==
    {Lower(competitors[i].name) : i \in 1..Len(competitors)}

RECURSIVE AddFound(_, _, _)
\* the first loop of find_competitors over the names found in the organic
\* results, in order: competitors so far, the names seen, the names left
AddFound(competitors, seen_names, found_names) ==
    IF Len(found_names) = 0 \/ Len(competitors) >= MaxCompetitors
    THEN [competitors |-> competitors, seen_names |-> seen_names]
    ELSE LET found == Head(found_names)
             name == found.name
         IN  IF Len(name) >= MinNameLength /\ Lower(name) \notin seen_names
             THEN AddFound(
                    Append(competitors,
                           [name |-> Capitalize(name),
                            confidence |-> IF found.in_snippet THEN "high"
                                           ELSE "medium"]),
                    seen_names \cup {Lower(name)}, Tail(found_names))
             ELSE AddFound(competitors, seen_names, Tail(found_names))

RECURSIVE AddTitled(_, _, _)
\* the second loop of find_competitors over the names taken from the titles
\* of the follow-up search
AddTitled(competitors, seen_names, potential_names) ==
    IF Len(potential_names) = 0 THEN competitors
    ELSE LET potential_name == Head(potential_names)
         IN  IF Len(potential_name) > 0 /\ Lower(potential_name) \notin seen_names
             THEN LET added == Append(competitors,
                                      [name |-> potential_name,
                                       confidence |-> "medium"])
                  IN  IF Len(added) >= FollowUpCap THEN added
                      ELSE AddTitled(added,
                                     seen_names \cup {Lower(potential_name)},
                                     Tail(potential_names))
             ELSE AddTitled(competitors, seen_names, Tail(potential_names))

\* the result of a successful find_competitors
CompetitorsResult(competitors) ==
    [competitors |-> Take(competitors, MaxCompetitors),
     count |-> Len(Take(competitors, MaxCompetitors)),
     search_successful |-> TRUE]

FindCompetitorsRetry(startup_idea, has_key, first, follow_up) ==
    IF ~has_key
    THEN [result |-> [error |-> "No Serper API key found"], requests |-> <<>>]
    ELSE LET request == Request("find_competitors", "competitors", startup_idea)
             log == <<Post(request, first)>>
         IN  IF first.raises
             THEN [result |-> [error |-> "Competitor search error"],
                   requests |-> log]
             ELSE IF first.status_code # 200
             THEN [result |-> [error |-> "Search failed",
                               status_code |-> first.status_code],
                   requests |-> log \o <<Post(request, first)>>]
             ELSE [result |->
                      CompetitorsResult(
                          AddFound(<<>>, {}, first.body.found_names).competitors),
                   requests |-> log]

\* find_competitors(startup_idea) with the API key set or not and the
\* responses the first and the follow-up search would receive
FindCompetitors(startup_idea, has_key, first, follow_up) ==
    IF ~has_key
    THEN [result |-> [error |-> "No Serper API key found"], requests |-> <<>>]
    ELSE LET request == Request("find_competitors", "competitors", startup_idea)
             log == <<Post(request, first)>>
         IN  IF first.raises
             THEN [result |-> [error |-> "Competitor search error"],
                   requests |-> log]
             ELSE IF first.status_code # 200
             THEN [result |-> [error |-> "Search failed",
                               status_code |-> first.status_code],
                   requests |-> log]
             ELSE LET found == AddFound(<<>>, {}, first.body.found_names)
                  IN  IF Len(found.competitors) >= FollowUpBelow
                      THEN [result |-> CompetitorsResult(found.competitors),
                            requests |-> log]
                      ELSE LET request2 == Request("find_competitors",
                                                   "companies", startup_idea)
                               log2 == Append(log, Post(request2, follow_up))
                           IN  IF follow_up.raises
                               THEN [result |->
                                        [error |-> "Competitor search error"],
                                     requests |-> log2]
                               ELSE IF follow_up.status_code = 200
                               THEN [result |->
                                        CompetitorsResult(
                                            AddTitled(found.competitors,
                                                      found.seen_names,
                                                      follow_up.body.potential_names)),
                                     requests |-> log2]
                               ELSE [result |->
                                        CompetitorsResult(found.competitors),
                                     requests |-> log2]

\* analyze_competitor(competitor_name)
AnalyzeCompetitor(competitor_name, has_key, response) ==
    IF ~has_key
    THEN [result |-> [error |-> "No Serper API key"], requests |-> <<>>]
    ELSE LET request == Request("analyze_competitor", "competitor_detail",
                                competitor_name)
             log == <<Post(request, response)>>
         IN  IF response.raises
             THEN [result |-> [error |-> "Competitor analysis error"],
                   requests |-> log]
             ELSE IF response.status_code = 200
             THEN [result |->
                      [name |-> competitor_name,
                       market_position |-> IF response.body.funding_found
                                           THEN "Established" ELSE "Emerging",
                       data_quality |-> IF response.body.funding_found
                                        THEN "high" ELSE "medium"],
                   requests |-> log]
             ELSE [result |-> [error |-> "Analysis failed",
                               status_code |-> response.status_code],
                   requests |-> log]

DefaultGaps ==
    [unserved_segments |->
        {"Small businesses", "Non-technical users", "Emerging markets"},
     missing_features |->
        {"AI automation", "Mobile-first experience", "Offline capability"},
     pricing_opportunities |->
        {"Freemium model", "Usage-based pricing", "SMB-focused tier"},
     geographic_gaps |-> {"Southeast Asia", "Latin America", "Africa"}]

\* the gaps found in the response, with the defaults for what was not found;
\* the lists are built from sets, so they are kept as sets
FoundGaps(body) ==
    [unserved_segments |->
        IF body.unserved = {}
        THEN {"Gen-Z users", "Rural markets", "Developing countries"}
        ELSE body.unserved,
     missing_features |->
        IF body.missing = {}
        THEN {"Real-time collaboration", "Advanced analytics", "API access"}
        ELSE body.missing,
     pricing_opportunities |->
        IF body.pricing = {}
        THEN {"Pay-as-you-go option", "Student discounts", "Startup programs"}
        ELSE body.pricing,
     geographic_gaps |-> {"Southeast Asia", "Eastern Europe", "Africa"},
     data_source |-> "Real market research"]

\* identify_market_gaps(competitors): comp_data is the result of
\* find_competitors
IdentifyMarketGaps(comp_data, has_key, response) ==
    LET competitors == Get(comp_data, "competitors", <<>>)
        competitor_names == [i \in 1..Len(competitors) |-> competitors[i].name]
    IN  IF ~has_key \/ Len(competitor_names) = 0
        THEN [result |-> DefaultGaps, requests |-> <<>>]
        ELSE LET request == Request("identify_market_gaps", "market_gaps",
                                    Take(competitor_names, 3))
                 log == <<Post(request, response)>>
             IN  IF response.raises
                 THEN [result |-> [error |-> "Gap identification error"],
                       requests |-> log]
                 ELSE IF response.status_code = 200
                 THEN [result |-> FoundGaps(response.body), requests |-> log]
                 ELSE [result |-> [error |-> "Gap analysis failed",
                                   status_code |-> response.status_code],
                       requests |-> log]

RECURSIVE DetailedAnalysis(_, _, _, _)
\* the loop of analyze over competitors[:3], from the i-th on
DetailedAnalysis(competitors, i, has_key, responses) ==
    IF i > Len(competitors) THEN [result |-> <<>>, requests |-> <<>>]
    ELSE LET one == AnalyzeCompetitor(competitors[i].name, has_key,
                                      responses[i])
             rest == DetailedAnalysis(competitors, i + 1, has_key, responses)
         IN  [result |-> <<one.result>> \o rest.result,
              requests |-> one.requests \o rest.requests]

LimitedData == <<"L", "i", "m", "i", "t", "e", "d", " ", "d", "a", "t", "a">>

CompetitorConfidenceReal == 85
CompetitorConfidenceLimited == 65

\* CompetitorResearcherAgent.analyze(startup_idea): the result and the
\* requests issued
CompetitorAnalyze(startup_idea, has_key, responses) ==
    LET find == FindCompetitors(startup_idea, has_key, responses.competitors,
                                responses.companies)
        competitors_result == find.result
        competitors == Get(competitors_result, "competitors", <<>>)
        detailed == DetailedAnalysis(Take(competitors, MaxDetailed), 1,
                                     has_key, responses.detail)
        gaps == IdentifyMarketGaps(competitors_result, has_key, responses.gaps)
        has_real_data == Get(competitors_result, "search_successful", FALSE)
    IN  [result |->
            [competitors_found |-> Get(competitors_result, "count", 0),
             competitor_list |-> competitors,
             detailed_analysis |-> detailed.result,
             market_gaps |-> gaps.result,
             confidence |-> IF has_real_data /\ Len(detailed.result) >= 2
                            THEN CompetitorConfidenceReal
                            ELSE CompetitorConfidenceLimited,
             data_source |-> IF has_real_data THEN RealWebSearch
                             ELSE LimitedData],
         requests |-> find.requests \o detailed.requests \o gaps.requests]

-----------------------------------------------------------------------------
(* Financial analyst: src/src/agents/financial_analyst.py                   *)

\* the costs dict with its total and formatted total
WithTotal(costs) ==
    LET total == costs.development + costs.marketing + costs.operations
                 + costs.legal + costs.other
    IN  costs @@ [total |-> total,
                  formatted_total |-> <<"$">> \o WithCommas(total)]

\* calculate_startup_costs(idea_type)
CalculateStartupCosts(idea_type) ==
    LET idea_lower == Lower(idea_type)
    IN  IF Contains(idea_lower, <<"m", "a", "r", "k", "e", "t", "p", "l", "a", "c", "e">>)
           \/ Contains(idea_lower, <<"p", "l", "a", "t", "f", "o", "r", "m">>)
        THEN WithTotal([development |-> 50000, marketing |-> 20000,
                        operations |-> 15000, legal |-> 10000, other |-> 5000])
        ELSE IF Contains(idea_lower, <<"a", "p", "p">>) \/ Contains(idea_lower, <<"m", "o", "b", "i", "l", "e">>)
        THEN WithTotal([development |-> 30000, marketing |-> 15000,
                        operations |-> 10000, legal |-> 5000, other |-> 5000])
        ELSE IF Contains(idea_lower, <<"s", "a", "a", "s">>)
                \/ Contains(idea_lower, <<"s", "o", "f", "t", "w", "a", "r", "e">>)
        THEN WithTotal([development |-> 40000, marketing |-> 25000,
                        operations |-> 10000, legal |-> 5000, other |-> 5000])
        ELSE WithTotal([development |-> 25000, marketing |-> 10000,
                        operations |-> 8000, legal |-> 3000, other |-> 4000])

RevenueMultiplierBillions(market_size) ==
    IF Contains(market_size, <<"B">>) \/ Contains(Lower(market_size), <<"b", "i", "l", "l", "i", "o", "n">>)
    THEN BillionExponent
    ELSE IF Contains(market_size, <<"M">>)
            \/ Contains(Lower(market_size), <<"m", "i", "l", "l", "i", "o", "n">>)
    THEN MillionExponent
    ELSE BillionExponent

\* the multiplier project_revenue chooses, as a power of ten
RevenueMultiplier(market_size) ==
    IF Contains(market_size, <<"B">>) \/ Contains(Lower(market_size), <<"b", "i", "l", "l", "i", "o", "n">>)
    THEN BillionExponent
    ELSE IF Contains(market_size, <<"M">>)
            \/ Contains(Lower(market_size), <<"m", "i", "l", "l", "i", "o", "n">>)
    THEN MillionExponent
    ELSE MillionExponent

IsNumberChar(c) ==
    c = "." \/ \E i \in 1..Len(DigitChars) : DigitChars[i] = c

RECURSIVE NumberRun(_)
\* the longest prefix of s made of digits and dots
NumberRun(s) ==
    IF Len(s) = 0 \/ ~IsNumberChar(Head(s)) THEN <<>>
    ELSE <<Head(s)>> \o NumberRun(Tail(s))

RECURSIVE FirstNumberRun(_)
\* re.findall(r'[\d.]+', s)[0], or <<>> when nothing matches
FirstNumberRun(s) ==
    IF Len(s) = 0 THEN <<>>
    ELSE IF IsNumberChar(Head(s)) THEN NumberRun(s)
    ELSE FirstNumberRun(Tail(s))

DigitValue(c) == (CHOOSE i \in 1..Len(DigitChars) : DigitChars[i] = c) - 1

RECURSIVE DigitsValue(_, _)
\* the integer written by the digits of run, dots skipped, after acc
DigitsValue(run, acc) ==
    IF Len(run) = 0 THEN acc
    ELSE IF Head(run) = "." THEN DigitsValue(Tail(run), acc)
    ELSE DigitsValue(Tail(run), 10 * acc + DigitValue(Head(run)))

\* the number of characters of run after its first dot (0 without a dot)
RECURSIVE AfterDot(_)
AfterDot(run) ==
    IF Len(run) = 0 THEN 0
    ELSE IF Head(run) = "." THEN Len(run) - 1
    ELSE AfterDot(Tail(run))

\* whether float(run) accepts a run of digits and dots: at most one dot and
\* at least one digit
IsFloat(run) ==
    /\ Cardinality({i \in 1..Len(run) : run[i] = "."}) <= 1
    /\ \E i \in 1..Len(run) : run[i] # "."

\* float(run) for a run that float accepts
ToFloat(run) == Dec(DigitsValue(run, 0), -AfterDot(run))

DefaultBaseNumber == Dec(100, 0)
DefaultCaptureRate == Dec(1, -3)

\* project_revenue(market_size, capture_rate): the projections, or the
\* ValueError of float(); the *_formatted copies of the values are left out
ProjectRevenue(market_size, capture_rate) ==
    LET run == FirstNumberRun(market_size)
    IN  IF Len(run) > 0 /\ ~IsFloat(run) THEN [raised |-> "ValueError"]
        ELSE LET base_number == IF Len(run) > 0 THEN ToFloat(run)
                                ELSE DefaultBaseNumber
                 market_value == DecScale(base_number, 1,
                                          RevenueMultiplier(market_size))
                 target == DecTimes(market_value, capture_rate)
             IN  [year_1 |-> Truncate(DecScale(target, 1, -1)),
                  year_2 |-> Truncate(DecScale(target, 3, -1)),
                  year_3 |-> Truncate(target),
                  year_5 |-> Truncate(DecScale(target, 25, -1))]

MarketValueMillions(market_size) ==
    LET run == FirstNumberRun(market_size)
    IN  IF Len(run) > 0 /\ ~IsFloat(run) THEN [raised |-> "ValueError"]
        ELSE DecScale(IF Len(run) > 0 THEN ToFloat(run) ELSE DefaultBaseNumber,
                      1, MillionExponent)

\* market_value of project_revenue: base_number * multiplier, or the
\* ValueError of float()
MarketValue(market_size) ==
    LET run == FirstNumberRun(market_size)
    IN  IF Len(run) > 0 /\ ~IsFloat(run) THEN [raised |-> "ValueError"]
        ELSE DecScale(IF Len(run) > 0 THEN ToFloat(run) ELSE DefaultBaseNumber,
                      1, RevenueMultiplier(market_size))

DefaultTotalCosts == 100000
StartingRevenue == 5000
GrowthPercent == 115
MaxMonths == 36
FallbackMonths == 18

\* x * 1.15 for x >= 0 in thousandths, without overflowing
Grow(x) == (x \div 100) * GrowthPercent + ((x % 100) * GrowthPercent) \div 100

RECURSIVE BreakEvenLoop(_, _, _, _, _)
\* the while loop of calculate_break_even; money in thousandths of a dollar
\* (current_revenue is rounded down to a thousandth after each month)
BreakEvenLoop(months, cumulative_loss, current_revenue, monthly_burn, total) ==
    IF cumulative_loss < total /\ months < MaxMonths
    THEN LET profit == current_revenue - monthly_burn
             loss == IF cumulative_loss - profit > 0
                     THEN cumulative_loss - profit ELSE 0
         IN  BreakEvenLoop(months + 1, loss, Grow(current_revenue),
                           monthly_burn, total)
    ELSE months

CalculateBreakEvenRaising(costs) ==
    IF costs.kind = "malformed"
    THEN [raised |-> "JSONDecodeError"]
    ELSE LET costs_data == IF costs.kind = "json" THEN costs.doc
                           ELSE [total |-> DefaultTotalCosts]
             total_costs == Get(costs_data, "total", DefaultTotalCosts)
             months == BreakEvenLoop(0, 0, StartingRevenue * 1000,
                                     total_costs * 25, total_costs * 1000)
         IN  [months_to_break_even |-> months,
              break_even_timeline |-> IntToStr(months) \o <<" ", "m", "o", "n", "t", "h", "s">>,
              initial_investment |-> <<"$">> \o WithCommas(total_costs)]

\* calculate_break_even(costs, monthly_revenue): costs is [kind, doc] with
\* kind "json" (a JSON document with a '{'), "no_brace" (a str without '{'),
\* "not_str" or "malformed"; a total is a whole number of dollars; the
\* formatted monthly_burn is left out
CalculateBreakEven(costs) ==
    IF costs.kind = "malformed"
    THEN [months_to_break_even |-> FallbackMonths,
          break_even_timeline |-> IntToStr(FallbackMonths) \o <<" ", "m", "o", "n", "t", "h", "s">>,
          note |-> "Estimated based on industry average"]
    ELSE LET costs_data == IF costs.kind = "json" THEN costs.doc
                           ELSE [total |-> DefaultTotalCosts]
             total_costs == Get(costs_data, "total", DefaultTotalCosts)
             months == BreakEvenLoop(0, 0, StartingRevenue * 1000,
                                     total_costs * 25, total_costs * 1000)
         IN  [months_to_break_even |-> months,
              break_even_timeline |-> IntToStr(months) \o <<" ", "m", "o", "n", "t", "h", "s">>,
              initial_investment |-> <<"$">> \o WithCommas(total_costs)]

DefaultMarketSize == <<"$", "1", "0", "0", "B">>
FinancialConfidence == 75

FinancialAnalyzeCounting(startup_idea, market_data) ==
    LET costs == CalculateStartupCosts(startup_idea)
        market_size ==
            IF market_data = None \/ DOMAIN market_data = {}
            THEN DefaultMarketSize
            ELSE Get(Get(market_data, "TAM", EmptyDict), "formatted",
                     DefaultMarketSize)
        revenue == ProjectRevenue(market_size, DefaultCaptureRate)
    IN  IF "raised" \in DOMAIN revenue THEN revenue
        ELSE [startup_costs |-> costs,
              revenue_projections |-> revenue,
              break_even_analysis |->
                  CalculateBreakEven([kind |-> "json", doc |-> costs]),
              confidence |-> IF runs > 1 THEN FinancialConfidence - 5
                             ELSE FinancialConfidence]

\* FinancialAnalystAgent.analyze(startup_idea, market_data): market_data is
\* a dict or None; the result without its 'summary' sentence, or the
\* exception of project_revenue
FinancialAnalyze(startup_idea, market_data) ==
    LET costs == CalculateStartupCosts(startup_idea)
        market_size ==
            IF market_data = None \/ DOMAIN market_data = {}
            THEN DefaultMarketSize
            ELSE Get(Get(market_data, "TAM", EmptyDict), "formatted",
                     DefaultMarketSize)
        revenue == ProjectRevenue(market_size, DefaultCaptureRate)
    IN  IF "raised" \in DOMAIN revenue THEN revenue
        ELSE [startup_costs |-> costs,
              revenue_projections |-> revenue,
              break_even_analysis |->
                  CalculateBreakEven([kind |-> "json", doc |-> costs]),
              confidence |-> FinancialConfidence]


-----------------------------------------------------------------------------
(* The controller: src/src/agents/controller.py *)

\* _define_routing_rules: the tasks in dict order, with the fields that
\* start_validation reads
RoutingRules ==
    << [task |-> "market_validation", required |-> TRUE,
        fallback |-> "basic_market_check"],
       [task |-> "competitor_analysis", required |-> TRUE,
        fallback |-> "simplified_competitor_search"],
       [task |-> "technical_feasibility", required |-> TRUE,
        fallback |-> "basic_tech_assessment"],
       [task |-> "financial_analysis", required |-> TRUE,
        fallback |-> "simple_cost_estimate"],
       [task |-> "strategy_synthesis", required |-> TRUE,
        fallback |-> "basic_recommendation"] >>

MinIdeaLength == 10

SpamKeywords == << <<"t", "e", "s", "t">>, <<"a", "s", "d", "f">>, <<"1", "2", "3">>, <<"x", "x", "x">> >>

PreValidationCheckLengthOnly(startup_idea) ==
    Len(startup_idea) >= MinIdeaLength

\* ControllerAgent._pre_validation_check(idea)
PreValidationCheck(startup_idea) ==
    IF Len(startup_idea) < MinIdeaLength THEN FALSE
    ELSE IF ContainsAny(Lower(startup_idea), SpamKeywords) THEN FALSE
    ELSE TRUE

TaskConfidence == 85

FallbackConfidence == 60

SuccessConfidence == 50

\* ControllerAgent._execute_task(task_name, config): the mock result
ExecuteTask(task_name) ==
    [status |-> "completed",
     confidence |-> TaskConfidence,
     data |-> <<"Mock data for", task_name>>]

\* ControllerAgent._execute_fallback(task_name, fallback_strategy)
ExecuteFallback(task_name, fallback_strategy) ==
    [status |-> "completed_with_fallback",
     confidence |-> FallbackConfidence,
     data |-> <<"Fallback data for", task_name>>]

\* ControllerAgent._check_success_criteria(result)
CheckSuccessCriteria(result) ==
    /\ Get(result, "status", "") = "completed"
    /\ Get(result, "confidence", 0) > SuccessConfidence

RECURSIVE RunTasks(_, _)
\* the loop of start_validation over the routing rules: state holds
\* validation_data and the log of the tasks and fallbacks executed
RunTasks(rules, state) ==
    IF Len(rules) = 0 THEN state
    ELSE LET config == Head(rules)
             task_name == config.task
             result == ExecuteTask(task_name)
             failed == ~CheckSuccessCriteria(result)
             after_task ==
                [validation_data |->
                    (task_name :> result) @@ state.validation_data,
                 executed |->
                    Append(state.executed, [task |-> task_name,
                                            kind |-> "task"])]
             fallback_result == ExecuteFallback(task_name, config.fallback)
             after_fallback ==
                [validation_data |->
                    (task_name :> fallback_result)
                        @@ after_task.validation_data,
                 executed |->
                    Append(after_task.executed, [task |-> task_name,
                                                 kind |-> "fallback"])]
         IN  IF ~config.required THEN RunTasks(Tail(rules), state)
             ELSE RunTasks(Tail(rules),
                           IF failed THEN after_fallback ELSE after_task)

\* the task results of validation_data: the values that are dicts
TaskEntries(validation_data) ==
    {key \in DOMAIN validation_data : key # "idea"}

RECURSIVE SumConfidences(_, _)
SumConfidences(keys, validation_data) ==
    IF keys = {} THEN 0
    ELSE LET key == CHOOSE k \in keys : TRUE
         IN  (IF "confidence" \in DOMAIN validation_data[key]
              THEN validation_data[key].confidence ELSE 0)
             + SumConfidences(keys \ {key}, validation_data)

\* ControllerAgent._calculate_confidence(): the mean of the confidences
\* present, in hundredths (to the hundredth below), 0.5 when there is none
CalculateConfidence(validation_data) ==
    LET with_confidence ==
            {key \in TaskEntries(validation_data) :
                "confidence" \in DOMAIN validation_data[key]}
    IN  IF with_confidence = {} THEN DefaultConfidence
        ELSE SumConfidences(with_confidence, validation_data)
                \div Cardinality(with_confidence)

\* ControllerAgent._synthesize_results(); the timestamp is left out
SynthesizeResults(validation_data, execution_time) ==
    LET score == ControllerCalculateValidationScore(validation_data)
    IN  [idea |-> Get(validation_data, "idea", <<>>),
         score |-> score,
         verdict |-> DetermineVerdict(score),
         execution_time |-> execution_time,
         market_analysis |->
            Get(validation_data, "market_validation", EmptyDict),
         competitors |->
            Get(validation_data, "competitor_analysis", EmptyDict),
         technical |->
            Get(validation_data, "technical_feasibility", EmptyDict),
         financial |->
            Get(validation_data, "financial_analysis", EmptyDict),
         strategy |->
            Get(validation_data, "strategy_synthesis", EmptyDict),
         metadata |-> [version |-> "1.0",
                       confidence |-> CalculateConfidence(validation_data)]]

\* ControllerAgent._create_error_response(message); the timestamp is left out
CreateErrorResponse(message) ==
    [error |-> TRUE, message |-> message, status |-> "error"]

MaxStarts == 3

\* the seconds start_validation may measure between its two clock readings
ElapsedSeconds == {0, 2, 75}

ControllerIdeas ==
    { <<"A", "I", " ", "a", "p", "p">>, <<"P", "e", "t", " ", "c", "a", "r", "e">>, <<"A", " ", "t", "e", "s", "t", " ", "o", "f", " ", "i", "d", "e", "a", "s">>, <<"C", "o", "n", "t", "e", "s", "t", " ", "p", "l", "a", "t", "f", "o", "r", "m">>,
      <<"R", "o", "o", "m", " ", "1", "2", "3", "4", " ", "b", "o", "o", "k", "i", "n", "g">>, <<"X", "X", "X", " ", "r", "a", "t", "e", "d", " ", "r", "e", "v", "i", "e", "w", "s">>, <<"a", "s", "d", "f", " ", "a", "s", "d", "f", " ", "a", "s", "d", "f">>,
      <<"A", "I", " ", "m", "e", "a", "l", " ", "p", "l", "a", "n", "n", "i", "n", "g", " ", "a", "p", "p">>, <<"S", "a", "a", "S", " ", "m", "a", "r", "k", "e", "t", "p", "l", "a", "c", "e">>,
      <<"A", "n", " ", "A", "I", "-", "p", "o", "w", "e", "r", "e", "d", " ", "p", "e", "r", "s", "o", "n", "a", "l", " ", "f", "i", "n", "a", "n", "c", "e", " ", "a", "p", "p">> }

\* ControllerAgent.__init__: the workflow state and nothing returned yet
ControllerIdle ==
    /\ workflow_state = [status |-> "idle", validation_data |-> EmptyDict]
    /\ executed = <<>>
    /\ reply = None
    /\ starts = 0

\* start_validation(startup_idea) on an idea the pre-check refuses
\* (lines 169-177): the state is set to running and the idea stored before
\* the check, and the error response is returned
StartValidationRejected(startup_idea) ==
    /\ starts < MaxStarts
    /\ ~PreValidationCheck(startup_idea)
    /\ starts' = starts + 1
    /\ workflow_state' =
            [status |-> "running",
             validation_data |->
                ("idea" :> startup_idea) @@ workflow_state.validation_data]
    /\ executed' = <<>>
    /\ reply' = CreateErrorResponse(<<"I", "n", "v", "a", "l", "i", "d", " ", "i", "n", "p", "u", "t">>)

StartValidationAcceptedRunning(startup_idea) ==
    /\ starts < MaxStarts
    /\ PreValidationCheck(startup_idea)
    /\ starts' = starts + 1
    /\ \E execution_time \in ElapsedSeconds :
        LET stored == ("idea" :> startup_idea)
                        @@ workflow_state.validation_data
            done == RunTasks(RoutingRules,
                             [validation_data |-> stored,
                              executed |-> <<>>])
        IN  /\ workflow_state' =
                    [status |-> "running",
                     validation_data |-> done.validation_data]
            /\ executed' = done.executed
            /\ reply' = SynthesizeResults(done.validation_data,
                                          execution_time)

\* start_validation(startup_idea) on an idea the pre-check accepts
\* (lines 169-199): every required task in order, a fallback after a task
\* that misses the success criteria, then the synthesis
StartValidationAccepted(startup_idea) ==
    /\ starts < MaxStarts
    /\ PreValidationCheck(startup_idea)
    /\ starts' = starts + 1
    /\ \E execution_time \in ElapsedSeconds :
        LET stored == ("idea" :> startup_idea)
                        @@ workflow_state.validation_data
            done == RunTasks(RoutingRules,
                             [validation_data |-> stored,
                              executed |-> <<>>])
        IN  /\ workflow_state' =
                    [status |-> "completed",
                     validation_data |-> done.validation_data]
            /\ executed' = done.executed
            /\ reply' = SynthesizeResults(done.validation_data,
                                             execution_time)

\* ControllerAgent.start_validation(startup_idea)
StartValidation ==
    \E startup_idea \in ControllerIdeas :
        /\ \/ StartValidationRejected(startup_idea)
           \/ StartValidationAccepted(startup_idea)
        /\ UNCHANGED <<pipeVars, toolVars, float_up>>

ControllerNext == StartValidation

-----------------------------------------------------------------------------
(* Orchestrator: src/src/main_orchestrator.py                               *)

Unknown == <<"U", "n", "k", "n", "o", "w", "n">>

OtherConfidenceKeys == <<"technical_analysis", "financial_analysis", "strategy">>

RECURSIVE OtherConfidences(_, _)
\* the loop over technical_analysis, financial_analysis and strategy: the
\* values confidence * 100 of the outputs that have a confidence
OtherConfidences(keys, res) ==
    IF Len(keys) = 0 THEN <<>>
    ELSE (IF Head(keys) \in DOMAIN res
             /\ "confidence" \in DOMAIN res[Head(keys)]
          THEN <<res[Head(keys)].confidence>> ELSE <<>>)
         \o OtherConfidences(Tail(keys), res)

\* the two data-quality entries of confidence_scores
QualityConfidences(res) ==
    LET searched == Get(Get(Get(res, "market_analysis", EmptyDict),
                            "market_research", EmptyDict),
                        "search_successful", FALSE)
        found == Get(Get(res, "competitor_analysis", EmptyDict),
                     "competitors_found", 0)
    IN  <<IF searched THEN 90 ELSE 60,
          IF found >= 3 THEN 85 ELSE IF found > 0 THEN 70 ELSE 50>>

CalculateOverallConfidenceMarketTwice(res) ==
    LET confidence_scores == QualityConfidences(res)
                             \o OtherConfidences(OtherConfidenceKeys, res)
    IN  (SumSeq(confidence_scores) + confidence_scores[1])
        \div (Len(confidence_scores) + 1)

\* StartupValidatorOrchestrator._calculate_overall_confidence(results)
CalculateOverallConfidence(res) ==
    LET confidence_scores == QualityConfidences(res)
                             \o OtherConfidences(OtherConfidenceKeys, res)
    IN  SumSeq(confidence_scores) \div Len(confidence_scores)

CreateSummaryAllRecommendations(res) ==
    LET market == Get(res, "market_analysis", EmptyDict)
        competitors == Get(res, "competitor_analysis", EmptyDict)
        technical == Get(res, "technical_analysis", EmptyDict)
        financial == Get(res, "financial_analysis", EmptyDict)
        strategy == Get(res, "strategy", EmptyDict)
        real_market_data == StartsWith(Get(market, "data_source", <<>>), <<"R", "e", "a", "l">>)
        real_competitor_data ==
            StartsWith(Get(competitors, "data_source", <<>>), <<"R", "e", "a", "l">>)
    IN  [score |-> Get(strategy, "score", 0),
         verdict |-> Get(strategy, "verdict", Unknown),
         market_size |->
            Get(Get(Get(market, "market_opportunity", EmptyDict),
                    "TAM", EmptyDict), "formatted", Unknown),
         competitors_found |-> Get(competitors, "competitors_found", 0),
         technical_complexity |->
            Get(Get(technical, "complexity", EmptyDict), "complexity", Unknown),
         initial_investment |->
            Get(Get(financial, "startup_costs", EmptyDict),
                "formatted_total", Unknown),
         break_even |->
            Get(Get(financial, "break_even_analysis", EmptyDict),
                "break_even_timeline", Unknown),
         top_recommendations |-> Get(strategy, "recommendations", <<>>),
         data_quality |->
            [market |-> IF real_market_data THEN "Real Research"
                        ELSE "Estimated",
             competitors |-> IF real_competitor_data THEN "Real Search"
                             ELSE "Estimated"]]

\* StartupValidatorOrchestrator._create_summary(results)
CreateSummary(res) ==
    LET market == Get(res, "market_analysis", EmptyDict)
        competitors == Get(res, "competitor_analysis", EmptyDict)
        technical == Get(res, "technical_analysis", EmptyDict)
        financial == Get(res, "financial_analysis", EmptyDict)
        strategy == Get(res, "strategy", EmptyDict)
        real_market_data == StartsWith(Get(market, "data_source", <<>>), <<"R", "e", "a", "l">>)
        real_competitor_data ==
            StartsWith(Get(competitors, "data_source", <<>>), <<"R", "e", "a", "l">>)
    IN  [score |-> Get(strategy, "score", 0),
         verdict |-> Get(strategy, "verdict", Unknown),
         market_size |->
            Get(Get(Get(market, "market_opportunity", EmptyDict),
                    "TAM", EmptyDict), "formatted", Unknown),
         competitors_found |-> Get(competitors, "competitors_found", 0),
         technical_complexity |->
            Get(Get(technical, "complexity", EmptyDict), "complexity", Unknown),
         initial_investment |->
            Get(Get(financial, "startup_costs", EmptyDict),
                "formatted_total", Unknown),
         break_even |->
            Get(Get(financial, "break_even_analysis", EmptyDict),
                "break_even_timeline", Unknown),
         top_recommendations |->
            Take(Get(strategy, "recommendations", <<>>), 3),
         data_quality |->
            [market |-> IF real_market_data THEN "Real Research"
                        ELSE "Estimated",
             competitors |-> IF real_competitor_data THEN "Real Search"
                             ELSE "Estimated"]]

-----------------------------------------------------------------------------
(* The search service: the responses a call may receive                     *)

Raised == [raises |-> TRUE, status_code |-> 0, body |-> EmptyDict]
Refused == [raises |-> FALSE, status_code |-> 429, body |-> EmptyDict]
Answered(body) == [raises |-> FALSE, status_code |-> 200, body |-> body]

\* organic results of a market search: one quoting 'USD 15.79 billion', one
\* quoting '4.56 million', one that only mentions the market
OrganicBillions ==
    [billion_patterns |-> <<Dec(1579, -2)>>, million_patterns |-> <<>>,
     numbers |-> <<[is_float |-> TRUE, value |-> Dec(1579, -2), unit |-> "B"]>>,
     mentions_market |-> TRUE]
OrganicMillions ==
    [billion_patterns |-> <<>>, million_patterns |-> <<Dec(456, -2)>>,
     numbers |-> <<[is_float |-> TRUE, value |-> Dec(456, -2), unit |-> "M"]>>,
     mentions_market |-> FALSE]
OrganicPlain ==
    [billion_patterns |-> <<>>, million_patterns |-> <<>>, numbers |-> <<>>,
     mentions_market |-> TRUE]

MarketSizeFigure == Answered([organic |-> <<OrganicPlain, OrganicBillions>>,
                              answer |-> <<>>])
MarketSizeMillions == Answered([organic |-> <<OrganicMillions>>,
                                answer |-> <<>>])
MarketSizePlain == Answered([organic |-> <<OrganicPlain>>, answer |-> <<>>])
MarketSizeNothing == Answered([organic |-> <<>>, answer |-> <<>>])

\* growth rates of 12.5% and 30% quoted in one result
TrendsFound == Answered([organic |-> <<[percentages |-> <<125, 300>>]>>])
TrendsNothing == Answered([organic |-> <<>>])

ThreeNames ==
    Answered([found_names |->
        <<[name |-> <<"m", "e", "a", "l", "i", "m", "e">>, in_snippet |-> TRUE],
          [name |-> <<"Y", "u", "m", "m", "l", "y">>, in_snippet |-> FALSE],
          [name |-> <<"M", "E", "A", "L", "I", "M", "E">>, in_snippet |-> TRUE],
          [name |-> <<"i", "o">>, in_snippet |-> TRUE],
          [name |-> <<"P", "l", "a", "n", "t", "j", "a", "m", "m", "e", "r">>, in_snippet |-> TRUE]>>])
OneName == Answered([found_names |-> <<[name |-> <<"m", "e", "a", "l", "i", "m", "e">>,
                                        in_snippet |-> TRUE]>>])
NoNames == Answered([found_names |-> <<>>])
TwoTitles == Answered([potential_names |-> <<<<"M", "e", "a", "l", "i", "m", "e">>, <<"E", "a", "t", " ", "T", "h", "i", "s", " ", "M", "u", "c", "h">>,
                                             <<"P", "l", "a", "t", "e", "J", "o", "y">>>>])
NoTitles == Answered([potential_names |-> <<>>])

Funded == Answered([funding_found |-> TRUE])
Unfunded == Answered([funding_found |-> FALSE])

GapsFound == Answered([unserved |-> {"Seniors"}, missing |-> {},
                       pricing |-> {"Family plan"}])
GapsNothing == Answered([unserved |-> {}, missing |-> {}, pricing |-> {}])

-----------------------------------------------------------------------------
(* validate_idea: one call after another on the same orchestrator           *)

MaxRuns == 2

PipelineIdeas ==
    {<<"A", "I", " ", "m", "e", "a", "l", " ", "p", "l", "a", "n", "n", "i", "n", "g", " ", "a", "p", "p">>, <<"S", "a", "a", "S", " ", "m", "a", "r", "k", "e", "t", "p", "l", "a", "c", "e">>}

PipelineMarketResponses ==
    {[market_size |-> MarketSizeFigure, market_trends |-> TrendsFound],
     [market_size |-> MarketSizePlain, market_trends |-> Refused],
     [market_size |-> Refused, market_trends |-> TrendsFound],
     [market_size |-> Raised, market_trends |-> Raised]}

PipelineCompetitorResponses ==
    {[competitors |-> ThreeNames, companies |-> NoTitles,
      detail |-> <<Funded, Unfunded, Refused>>, gaps |-> GapsFound],
     [competitors |-> OneName, companies |-> Refused,
      detail |-> <<Funded, Funded, Funded>>, gaps |-> Refused],
     [competitors |-> Refused, companies |-> NoTitles,
      detail |-> <<Funded, Funded, Funded>>, gaps |-> GapsFound]}

\* the environment of one call: whether SERPER_API_KEY is set, and the
\* response each search would receive; without the key no search is made,
\* and one choice of responses stands for all
PipelineEnvs ==
    {[has_key |-> TRUE, responses |-> market @@ competitor]
        : market \in PipelineMarketResponses,
          competitor \in PipelineCompetitorResponses}
    \cup {[has_key |-> FALSE,
            responses |->
                [market_size |-> MarketSizeFigure, market_trends |-> TrendsFound,
                 competitors |-> ThreeNames, companies |-> NoTitles,
                 detail |-> <<Funded, Unfunded, Refused>>,
                 gaps |-> GapsFound]]}

StageOrderFinancialFirst ==
    <<"financial", "market", "competitor", "technical", "strategy">>

\* the order in which validate_idea calls the agents
StageOrder == <<"market", "competitor", "technical", "financial", "strategy">>

\* the position of the call after the given stage has returned
AfterStage(stage) ==
    LET i == CHOOSE j \in 1..Len(StageOrder) : StageOrder[j] = stage
    IN  IF i = Len(StageOrder) THEN "finish" ELSE StageOrder[i + 1]

ProgressEvent(percent) == [event |-> "progress", percent |-> percent]
StageEvent(event, stage) == [event |-> event, stage |-> stage]

\* the log and the reports after progress_callback(message, percent), which
\* is only called when a callback was given
Reported(percent) ==
    IF cb THEN Append(calls, ProgressEvent(percent)) ELSE calls
Seen(percent) == IF cb THEN Append(progress, percent) ELSE progress

FailedSilently(res, message) == [error |-> message] @@ res

\* the except branch: results['status'] = 'error', results['error'] = str(e)
Failed(res, message) ==
    [error |-> message] @@ [res EXCEPT !.status = "error"]

Init ==
    /\ pc = "idle" /\ idea = <<>> /\ cb = FALSE /\ env = EmptyDict
    /\ results = EmptyDict /\ calls = <<>> /\ requests = <<>>
    /\ progress = <<>> /\ runs = 0 /\ prev = EmptyDict
    /\ float_up \in BOOLEAN
    /\ tool = "none" /\ arg = <<>> /\ ret = <<>>
    /\ ControllerIdle

\* validate_idea(startup_idea, progress_callback) up to the try statement
ValidateIdea ==
    /\ pc = "idle"
    /\ runs < MaxRuns
    /\ \E startup_idea \in PipelineIdeas, progress_callback \in BOOLEAN,
          environment \in PipelineEnvs :
        /\ idea' = startup_idea
        /\ cb' = progress_callback
        /\ env' = environment
        /\ results' = [idea |-> startup_idea, status |-> "processing",
                       using_real_data |-> environment.has_key]
    /\ calls' = <<>>
    /\ requests' = <<>>
    /\ progress' = <<>>
    /\ runs' = runs + 1
    /\ pc' = StageOrder[1]
    /\ UNCHANGED <<prev, float_up, toolVars, ctlVars>>

\* progress_callback raises: the call ends in the except branch
CallbackRaises(percent, res) ==
    /\ cb
    /\ calls' = Append(Reported(percent), StageEvent("raised", "callback"))
    /\ progress' = Seen(percent)
    /\ results' = Failed(res, "callback")
    /\ pc' = "idle"
    /\ UNCHANGED <<idea, cb, env, requests, runs, prev, float_up, toolVars, ctlVars>>

StageRaisesReporting(stage, percent) ==
    /\ calls' = Reported(percent)
                \o <<StageEvent("invoked", stage), StageEvent("raised", stage)>>
                \o (IF cb THEN <<ProgressEvent(100)>> ELSE <<>>)
    /\ progress' = (IF cb THEN Append(Seen(percent), 100) ELSE progress)
    /\ results' = Failed(results, stage)
    /\ pc' = "idle"
    /\ UNCHANGED <<idea, cb, env, requests, runs, prev, float_up, toolVars, ctlVars>>

\* the agent's analyze or synthesize raises: the except branch
StageRaises(stage, percent) ==
    /\ calls' = Reported(percent)
                \o <<StageEvent("invoked", stage), StageEvent("raised", stage)>>
    /\ progress' = Seen(percent)
    /\ results' = Failed(results, stage)
    /\ pc' = "idle"
    /\ UNCHANGED <<idea, cb, env, requests, runs, prev, float_up, toolVars, ctlVars>>

StageReturnsNothing(stage, percent, key, out) ==
    /\ calls' = Reported(percent)
                \o <<StageEvent("invoked", stage), StageEvent("returned", stage)>>
    /\ progress' = Seen(percent)
    /\ results' = IF stage = "technical" THEN results
                  ELSE (key :> out.result) @@ results
    /\ requests' = requests \o out.requests
    /\ pc' = AfterStage(stage)
    /\ UNCHANGED <<idea, cb, env, runs, prev, float_up, toolVars, ctlVars>>

\* the agent returns out.result after issuing out.requests
StageReturns(stage, percent, key, out) ==
    /\ calls' = Reported(percent)
                \o <<StageEvent("invoked", stage), StageEvent("returned", stage)>>
    /\ progress' = Seen(percent)
    /\ results' = (key :> out.result) @@ results
    /\ requests' = requests \o out.requests
    /\ pc' = AfterStage(stage)
    /\ UNCHANGED <<idea, cb, env, runs, prev, float_up, toolVars, ctlVars>>

\* Step 1: Market Analysis
MarketStage ==
    /\ pc = "market"
    /\ \/ CallbackRaises(20, results)
       \/ StageRaises("market", 20)
       \/ StageReturns("market", 20, "market_analysis",
                       MarketAnalyze(idea, env.has_key, env.responses))

\* Step 2: Competitor Research
CompetitorStage ==
    /\ pc = "competitor"
    /\ \/ CallbackRaises(40, results)
       \/ StageRaises("competitor", 40)
       \/ StageReturns("competitor", 40, "competitor_analysis",
                       CompetitorAnalyze(idea, env.has_key, env.responses))

\* Step 3: Technical Assessment
TechnicalStage ==
    /\ pc = "technical"
    /\ \/ CallbackRaises(60, results)
       \/ StageRaises("technical", 60)
       \/ StageReturns("technical", 60, "technical_analysis",
                       [result |-> TechnicalAnalyze(idea), requests |-> <<>>])

\* Step 4: Financial Projections, given the market stage's market_opportunity
FinancialStage ==
    /\ pc = "financial"
    /\ LET market_results == Get(results, "market_analysis", EmptyDict)
           financial_results ==
               FinancialAnalyze(idea, Get(market_results, "market_opportunity",
                                          EmptyDict))
       IN  \/ CallbackRaises(80, results)
           \/ StageRaises("financial", 80)
           \/ /\ "raised" \notin DOMAIN financial_results
              /\ StageReturns("financial", 80, "financial_analysis",
                              [result |-> financial_results,
                               requests |-> <<>>])

\* Step 5: Strategic Synthesis
StrategyStage ==
    /\ pc = "strategy"
    /\ LET all_analyses ==
               [market |-> Get(results, "market_analysis", EmptyDict),
                competitors |-> Get(results, "competitor_analysis", EmptyDict),
                technical |-> Get(results, "technical_analysis", EmptyDict),
                financial |-> Get(results, "financial_analysis", EmptyDict)]
       IN  \/ CallbackRaises(90, results)
           \/ StageRaises("strategy", 90)
           \/ StageReturns("strategy", 90, "strategy",
                           [result |-> Synthesize(all_analyses),
                            requests |-> <<>>])

\* round(time.time() - start_time, 2) in hundredths of a second: what the
\* clock may show
ExecutionTimes == {0, 1234}

\* the end of the try block: execution time, status, confidence score,
\* summary and the last progress report
Finish ==
    /\ pc = "finish"
    /\ \E execution_time \in ExecutionTimes :
       LET completed == [execution_time |-> execution_time]
                        @@ [results EXCEPT !.status = "completed"]
           scored == [confidence_score |->
                         CalculateOverallConfidence(completed)] @@ completed
           summarised == [summary |-> CreateSummary(scored)] @@ scored
       IN  \/ CallbackRaises(100, summarised)
           \/ /\ calls' = Reported(100)
              /\ progress' = Seen(100)
              /\ results' = summarised
              /\ prev' = [idea |-> idea, env |-> env, results |-> summarised]
              /\ pc' = "idle"
              /\ UNCHANGED <<idea, cb, env, requests, runs, float_up, toolVars, ctlVars>>

Next ==
    \/ ValidateIdea
    \/ MarketStage
    \/ CompetitorStage
    \/ TechnicalStage
    \/ FinancialStage
    \/ StrategyStage
    \/ Finish

Spec == Init /\ [][Next]_vars
-----------------------------------------------------------------------------
(* Tool bench: each tool applied to inputs drawn from bounded sets          *)

MaxScoreInput == 1100
MaxWords == 2

ScoreInputs == 0..MaxScoreInput

Vocabulary ==
    {<<"A", "I">>, <<"a", "p", "p">>, <<"b", "l", "o", "g">>, <<"m", "a", "i", "n", "t", "a", "i", "n">>, <<"S", "i", "m", "p", "l", "e">>, <<"t", "o", "o", "l">>,
     <<"m", "a", "r", "k", "e", "t", "p", "l", "a", "c", "e">>, <<"S", "a", "a", "S">>}

RECURSIVE WordLists(_)
WordLists(n) ==
    IF n = 0 THEN {<<>>}
    ELSE WordLists(n - 1)
         \cup {Append(ws, w) : ws \in WordLists(n - 1), w \in Vocabulary}

BenchIdeas == {JoinWords(ws) : ws \in WordLists(MaxWords)}

AnalysisDataInputs == {"json", "no_brace", "malformed"}

ConfidenceSamples == {0, 60, 85, 100}

\* one task result of the controller: absent, {}, a dict without
\* 'confidence', or a dict with a confidence
TaskResultInputs ==
    {[kind |-> "absent"], [kind |-> "empty"], [kind |-> "no_confidence"]}
    \cup {[kind |-> "confidence", value |-> c] : c \in ConfidenceSamples}

TaskResult(choice) ==
    IF choice.kind = "empty" THEN EmptyDict
    ELSE IF choice.kind = "no_confidence" THEN [status |-> "completed"]
    ELSE [status |-> "completed", confidence |-> choice.value]

RECURSIVE ValidationData(_, _)
\* the validation_data dict holding the chosen task result for each key
ValidationData(keys, choices) ==
    IF Len(keys) = 0 THEN EmptyDict
    ELSE (IF choices[Head(keys)].kind = "absent" THEN EmptyDict
          ELSE Head(keys) :> TaskResult(choices[Head(keys)]))
         @@ ValidationData(Tail(keys), choices)

MaxBenchInsights == 2

NoPatterns == [billion_patterns |-> <<>>, million_patterns |-> <<>>,
               numbers |-> <<>>]

\* insights as calculate_tam_sam_som reads them: what its two patterns find
\* in the text, and the extracted numbers
InsightSamples ==
    {NoPatterns,
     [NoPatterns EXCEPT !.billion_patterns = <<Dec(1579, -2)>>],
     [NoPatterns EXCEPT !.billion_patterns = <<Dec(0, 0)>>],
     [NoPatterns EXCEPT !.million_patterns = <<Dec(456, -2)>>],
     [NoPatterns EXCEPT !.billion_patterns = <<Dec(3, 0)>>,
                        !.million_patterns = <<Dec(850, 0)>>],
     [NoPatterns EXCEPT !.numbers =
         <<[is_float |-> TRUE, value |-> Dec(2024, 0), unit |-> ""],
           [is_float |-> TRUE, value |-> Dec(45, -1), unit |-> "B"]>>],
     [NoPatterns EXCEPT !.numbers =
         <<[is_float |-> FALSE, value |-> Dec(0, 0), unit |-> "M"]>>]}

RECURSIVE InsightLists(_)
InsightLists(n) ==
    IF n = 0 THEN {<<>>}
    ELSE InsightLists(n - 1)
         \cup {Append(is, i) : is \in InsightLists(n - 1), i \in InsightSamples}

MarketDataInputs ==
    {[kind |-> "none", doc |-> EmptyDict],
     [kind |-> "empty", doc |-> EmptyDict],
     [kind |-> "malformed", doc |-> EmptyDict],
     [kind |-> "json", doc |-> [error |-> "Search failed"]]}
    \cup {[kind |-> "json",
           doc |-> [market_insights |-> insights, search_successful |-> TRUE]]
            : insights \in InsightLists(MaxBenchInsights)}

IndustryInputs ==
    {[is_str |-> TRUE, text |-> text]
        : text \in {<<"a", "i">>, <<"n", "u", "t", "r", "i", "t", "i", "o", "n">>, <<"S", "a", "a", "S">>, <<"f", "a", "s", "h", "i", "o", "n">>,
                    <<"e", "c", "o", "m", "m", "e", "r", "c", "e">>}}
    \cup {[is_str |-> FALSE, text |-> <<>>]}

\* market size strings with the number and unit a reader takes from them
MarketSizeInputs ==
    {[market_size |-> <<"$", "1", "0", "0", "B">>, value |-> Dec(100, 9)],
     [market_size |-> <<"$", "1", "5", ".", "8", "B">>, value |-> Dec(158, 8)],
     [market_size |-> <<"$", "4", ".", "1", "B">>, value |-> Dec(41, 8)],
     [market_size |-> <<"$", "5", "0", "0", "0", ".", "0", "B">>, value |-> Dec(5000, 9)],
     [market_size |-> <<"$", "4", ".", "5", "M">>, value |-> Dec(45, 5)],
     [market_size |-> <<"$", "0", ".", "0", "M">>, value |-> Dec(0, 0)],
     [market_size |-> <<"2", ".", "5", " ", "b", "i", "l", "l", "i", "o", "n">>, value |-> Dec(25, 8)],
     [market_size |-> <<"7", "5", "0", " ", "m", "i", "l", "l", "i", "o", "n">>, value |-> Dec(750, 6)],
     [market_size |-> <<"1", "2", "3", "4", "5">>, value |-> Dec(12345, 6)],
     [market_size |-> <<".", "5", " ", "B", "I", "L", "L", "I", "O", "N">>, value |-> Dec(5, 8)],
     [market_size |-> <<"h", "u", "g", "e">>, value |-> Dec(100, 6)],
     [market_size |-> <<"B", "i", "g">>, value |-> Dec(100, 9)]}

\* strings whose first run of digits and dots is not a number
UnparsableMarketSizes == {<<"a", "p", "p", "r", "o", "x", ".", " ", "5", "B">>, <<"1", ".", "2", ".", "3", "M">>, <<".", ".", ".">>}

CaptureRateInputs == {Dec(1, -3), Dec(1, -2), Dec(37, -2), Dec(1, 0)}

BenchMarketResponses ==
    {[market_size |-> market_size, market_trends |-> market_trends]
        : market_size \in {Raised, Refused, MarketSizeFigure,
                           MarketSizeMillions, MarketSizePlain,
                           MarketSizeNothing},
          market_trends \in {Raised, Refused, TrendsFound, TrendsNothing}}

BenchCompetitorResponses ==
    {[competitors |-> competitors, companies |-> companies,
      detail |-> detail, gaps |-> gaps]
        : competitors \in {Raised, Refused, ThreeNames, OneName, NoNames},
          companies \in {Raised, Refused, TwoTitles, NoTitles},
          detail \in {<<Funded, Unfunded, Funded>>, <<Refused, Funded, Raised>>},
          gaps \in {Raised, Refused, GapsFound, GapsNothing}}

\* either nothing, or the entry key: value for one of the values
Optional(key, values) == {EmptyDict} \cup {key :> value : value \in values}

\* stage outputs with any subset of the fields _create_summary reads
StrategyMaps ==
    {score @@ verdict @@ recommendations
        : score \in Optional("score", {720}),
          verdict \in Optional("verdict", {VerdictPivot}),
          recommendations \in
              Optional("recommendations",
                       {<<"first", "second", "third", "fourth">>})}

MarketMaps ==
    {data_source @@ market_opportunity
        : data_source \in Optional("data_source",
                                   {RealWebSearch, IndustryBaselines}),
          market_opportunity \in
              Optional("market_opportunity",
                       {EmptyDict, [TAM |-> EmptyDict],
                        [TAM |-> [formatted |-> <<"$", "1", "5", ".", "8", "B">>]]})}

CompetitorMaps ==
    {competitors_found @@ data_source
        : competitors_found \in Optional("competitors_found", {4}),
          data_source \in Optional("data_source", {RealWebSearch, LimitedData})}

TechnicalMaps ==
    Optional("complexity", {EmptyDict, [complexity |-> LevelHigh]})

FinancialMaps ==
    {startup_costs @@ break_even_analysis
        : startup_costs \in
              Optional("startup_costs",
                       {EmptyDict, [formatted_total |-> <<"$", "6", "5", ",", "0", "0", "0">>]}),
          break_even_analysis \in
              Optional("break_even_analysis",
                       {EmptyDict, [break_even_timeline |-> <<"3", "6", " ", "m", "o", "n", "t", "h", "s">>]})}

\* result records in which any of the stage maps may be missing
ResultRecords ==
    {[idea |-> <<"A", "I", " ", "m", "e", "a", "l", " ", "p", "l", "a", "n", "n", "i", "n", "g", " ", "a", "p", "p">>, status |-> "completed"]
     @@ market @@ competitors @@ technical @@ financial @@ strategy
        : market \in Optional("market_analysis", MarketMaps),
          competitors \in Optional("competitor_analysis", CompetitorMaps),
          technical \in Optional("technical_analysis", TechnicalMaps),
          financial \in Optional("financial_analysis", FinancialMaps),
          strategy \in Optional("strategy", StrategyMaps)}

ControllerKeySet == {ControllerWeightKeys[i] : i \in 1..Len(ControllerWeightKeys)}

AgentTestIdeas ==
    PipelineIdeas \cup { <<"A", "I", "-", "p", "o", "w", "e", "r", "e", "d", " ", "p", "e", "r", "s", "o", "n", "a", "l", " ", "f", "i", "n", "a", "n", "c", "e", " ", "a", "p", "p", " ", "f", "o", "r", " ", "m", "i", "l", "l", "e", "n", "n", "i", "a", "l", "s">> }

\* competitor searches that all fail, besides those of the pipeline
AgentCompetitorResponses ==
    PipelineCompetitorResponses
    \cup {[competitors |-> failure, companies |-> failure,
           detail |-> <<failure, failure, failure>>, gaps |-> failure]
            : failure \in {Raised, Refused}}

\* the three labels of generate_recommendations, the bare words of the
\* docstring of create_action_plan, and the default of the report
VerdictInputs ==
    {VerdictGo, VerdictPivot, VerdictNoGo, <<"G", "O">>, <<"P", "I", "V", "O", "T">>, <<"N", "O", "-", "G", "O">>,
     Unknown}

\* totals of a costs document, in dollars
TotalInputs == {0, 1000, 20000, 65000, 100000, 150000, 400000, 1000000}

\* the costs handed to calculate_break_even: the documents of
\* calculate_startup_costs, documents with another total or with none, a
\* str without '{', a value that is no str, and a str that is no JSON
CostInputs ==
    {[kind |-> "json", doc |-> CalculateStartupCosts(startup_idea)]
        : startup_idea \in AgentTestIdeas}
    \cup {[kind |-> "json", doc |-> [total |-> total]] : total \in TotalInputs}
    \cup {[kind |-> "json", doc |-> EmptyDict],
          [kind |-> "no_brace", doc |-> EmptyDict],
          [kind |-> "not_str", doc |-> EmptyDict],
          [kind |-> "malformed", doc |-> EmptyDict]}

\* industry names: every key of the baseline table, and names outside it
IndustryNames ==
    {BaselineKeys[i] : i \in 1..Len(BaselineKeys)}
    \cup { <<"f", "a", "s", "h", "i", "o", "n">>, <<"t", "r", "a", "v", "e", "l">>, <<"g", "e", "n", "e", "r", "a", "l">>, <<"N", "u", "t", "r", "i", "t", "i", "o", "n">> }

\* TAM values: those calculate_tam_sam_som computes on the bench inputs, and
\* values at the unit boundary and half-way between two one-decimal figures
HandOverTamValues ==
    {CalculateTamSamSom(industry, market_data).TAM.value
        : industry \in IndustryInputs, market_data \in MarketDataInputs}
    \cup {Dec(1, 9), Dec(99996, 4), Dec(99994, 4), Dec(95, 7), Dec(125, 7),
          Dec(1005, 6), Dec(15, 4), Dec(4, 4), Dec(1, -1), Dec(123456789, 3),
          Dec(5, 12)}

BenchIdle ==
    /\ pc = "idle" /\ idea = <<>> /\ cb = FALSE /\ env = EmptyDict
    /\ results = EmptyDict /\ calls = <<>> /\ requests = <<>>
    /\ progress = <<>> /\ runs = 0 /\ prev = EmptyDict

ToolsInit ==
    /\ BenchIdle
    /\ float_up \in BOOLEAN
    /\ tool = "none" /\ arg = <<>> /\ ret = <<>>
    /\ ControllerIdle

\* the bench applies one tool to one input in each behaviour
BenchReady == tool = "none"

ApplyVerdict ==
    /\ BenchReady
    /\ \E score \in ScoreInputs :
        /\ tool' = "verdict"
        /\ arg' = score
        /\ ret' = [advisor |-> GenerateRecommendations(score),
                   controller |-> DetermineVerdict(score)]
        /\ UNCHANGED <<pipeVars, float_up, ctlVars>>

ApplyAdvisorScore ==
    /\ BenchReady
    /\ \E analysis_data \in AnalysisDataInputs :
        /\ tool' = "advisor_score"
        /\ arg' = analysis_data
        /\ ret' = AdvisorCalculateValidationScore(analysis_data)
        /\ UNCHANGED <<pipeVars, float_up, ctlVars>>

ApplyControllerScore ==
    /\ BenchReady
    /\ \E choices \in [ControllerKeySet -> TaskResultInputs] :
        /\ tool' = "controller_score"
        /\ arg' = ValidationData(ControllerWeightKeys, choices)
        /\ ret' = ControllerCalculateValidationScore(arg')
        /\ UNCHANGED <<pipeVars, float_up, ctlVars>>

ApplyTechnical ==
    /\ BenchReady
    /\ \E startup_idea \in BenchIdeas :
        /\ tool' = "technical"
        /\ arg' = startup_idea
        /\ ret' = TechnicalAnalyze(startup_idea)
        /\ UNCHANGED <<pipeVars, float_up, ctlVars>>

ApplyTamSamSom ==
    /\ BenchReady
    /\ \E industry \in IndustryInputs, market_data \in MarketDataInputs :
        /\ tool' = "tam_sam_som"
        /\ arg' = [industry |-> industry, market_data |-> market_data]
        /\ ret' = CalculateTamSamSom(industry, market_data)
        /\ UNCHANGED <<pipeVars, float_up, ctlVars>>

ApplyProjectRevenue ==
    /\ BenchReady
    /\ \E capture_rate \in CaptureRateInputs :
        \/ \E input \in MarketSizeInputs :
            /\ tool' = "project_revenue"
            /\ arg' = [market_size |-> input.market_size,
                       parses |-> TRUE, value |-> input.value,
                       capture_rate |-> capture_rate]
            /\ ret' = ProjectRevenue(input.market_size, capture_rate)
        \/ \E market_size \in UnparsableMarketSizes :
            /\ tool' = "project_revenue"
            /\ arg' = [market_size |-> market_size, parses |-> FALSE,
                       value |-> Dec(0, 0), capture_rate |-> capture_rate]
            /\ ret' = ProjectRevenue(market_size, capture_rate)
    /\ UNCHANGED <<pipeVars, float_up, ctlVars>>

ApplyMarketAnalyze ==
    /\ BenchReady
    /\ \E startup_idea \in PipelineIdeas, has_key \in BOOLEAN,
          responses \in BenchMarketResponses :
        /\ tool' = "market_analyze"
        /\ arg' = [startup_idea |-> startup_idea, has_key |-> has_key,
                   responses |-> responses]
        /\ ret' = [search |-> SearchMarketData(startup_idea, has_key,
                                               responses.market_size),
                   stage |-> MarketAnalyze(startup_idea, has_key, responses)]
    /\ UNCHANGED <<pipeVars, float_up, ctlVars>>

ApplyCompetitorAnalyze ==
    /\ BenchReady
    /\ \E startup_idea \in PipelineIdeas, has_key \in BOOLEAN,
          responses \in BenchCompetitorResponses :
        /\ tool' = "competitor_analyze"
        /\ arg' = [startup_idea |-> startup_idea, has_key |-> has_key,
                   responses |-> responses]
        /\ ret' = [search |-> FindCompetitors(startup_idea, has_key,
                                              responses.competitors,
                                              responses.companies),
                   stage |-> CompetitorAnalyze(startup_idea, has_key,
                                               responses)]
    /\ UNCHANGED <<pipeVars, float_up, ctlVars>>

ApplyCreateSummary ==
    /\ BenchReady
    /\ \E record \in ResultRecords :
        /\ tool' = "create_summary"
        /\ arg' = record
        /\ ret' = CreateSummary(record)
    /\ UNCHANGED <<pipeVars, float_up, ctlVars>>

\* tests/test_agents.py: the five agents one after the other on one idea,
\* the financial analyst on the market opportunity of the market analyst
ApplyAllAgents ==
    /\ BenchReady
    /\ \E test_idea \in AgentTestIdeas, has_key \in BOOLEAN,
          market_responses \in BenchMarketResponses,
          competitor_responses \in AgentCompetitorResponses :
        LET market_results ==
                MarketAnalyze(test_idea, has_key, market_responses).result
            comp_results ==
                CompetitorAnalyze(test_idea, has_key,
                                  competitor_responses).result
            tech_results == TechnicalAnalyze(test_idea)
            financial_results ==
                FinancialAnalyze(test_idea,
                                 Get(market_results, "market_opportunity",
                                     EmptyDict))
            all_results == [market |-> market_results,
                            competitors |-> comp_results,
                            technical |-> tech_results,
                            financial |-> financial_results]
        IN  /\ tool' = "all_agents"
            /\ arg' = [test_idea |-> test_idea, has_key |-> has_key,
                       market_responses |-> market_responses,
                       competitor_responses |-> competitor_responses]
            /\ ret' = [strategy |-> Synthesize(all_results)] @@ all_results
    /\ UNCHANGED <<pipeVars, float_up, ctlVars>>

\* create_action_plan(verdict) and the verdict styling of the report
ApplyActionPlan ==
    /\ BenchReady
    /\ \E verdict \in VerdictInputs :
        /\ tool' = "action_plan"
        /\ arg' = verdict
        /\ ret' = [plan |-> CreateActionPlan(verdict),
                   style |-> VerdictStyle(verdict)]
    /\ UNCHANGED <<pipeVars, float_up, ctlVars>>

ApplyBreakEven ==
    /\ BenchReady
    /\ \E costs \in CostInputs :
        /\ tool' = "break_even"
        /\ arg' = costs
        /\ ret' = CalculateBreakEven(costs)
    /\ UNCHANGED <<pipeVars, float_up, ctlVars>>

\* _get_industry_baseline on an industry name, and _extract_industry on an
\* idea that names this industry and no other
ApplyIndustry ==
    /\ BenchReady
    /\ \E industry \in IndustryNames :
        LET idea_text == <<"A", " ">> \o industry \o <<" ", "v", "e", "n", "t", "u", "r", "e">>
        IN  /\ tool' = "industry"
            /\ arg' = [industry |-> industry, idea_text |-> idea_text]
            /\ ret' = [baseline |-> GetIndustryBaseline(industry),
                       extracted |-> ExtractIndustry(idea_text)]
    /\ UNCHANGED <<pipeVars, float_up, ctlVars>>

\* the hand-over of FinancialAnalystAgent.analyze: the 'formatted' string
\* calculate_tam_sam_som writes for a TAM value, read by project_revenue
ApplyHandOver ==
    /\ BenchReady
    /\ \E tam_value \in HandOverTamValues :
        LET market_size == FormatAmount(tam_value)
        IN  /\ tool' = "hand_over"
            /\ arg' = tam_value
            /\ ret' = [formatted |-> market_size,
                       multiplier |-> RevenueMultiplier(market_size),
                       market_value |-> MarketValue(market_size),
                       revenue |-> ProjectRevenue(market_size,
                                                  DefaultCaptureRate)]
    /\ UNCHANGED <<pipeVars, float_up, ctlVars>>

ToolsNext ==
    \/ ApplyVerdict
    \/ ApplyAdvisorScore
    \/ ApplyControllerScore
    \/ ApplyTechnical
    \/ ApplyTamSamSom
    \/ ApplyProjectRevenue
    \/ ApplyMarketAnalyze
    \/ ApplyCompetitorAnalyze
    \/ ApplyCreateSummary
    \/ ApplyAllAgents
    \/ ApplyActionPlan
    \/ ApplyBreakEven
    \/ ApplyIndustry
    \/ ApplyHandOver

SpecTools == ToolsInit /\ [][ToolsNext]_vars

-----------------------------------------------------------------------------
(* The controller on its own: start_validation called MaxStarts times *)

ControllerInit ==
    /\ BenchIdle /\ ControllerIdle
    /\ float_up \in BOOLEAN
    /\ tool = "none" /\ arg = <<>> /\ ret = <<>>

SpecController == ControllerInit /\ [][ControllerNext]_vars
-----------------------------------------------------------------------------
(* Claims *)

RECURSIVE SumOver(_, _)
SumOver(keys, table) ==
    IF Len(keys) = 0 THEN 0 ELSE table[Head(keys)] + SumOver(Tail(keys), table)

\* the stage calls of the current validate_idea call, in order
StageCalls == SelectSeq(calls, LAMBDA e : e.event \in {"invoked", "returned"})

\* C1: validate_idea runs the five stages in the fixed order market,
\* competitor, technical, financial, strategy: at every moment the stage
\* calls made so far are a beginning of that sequence, each stage invoked
\* at most once and only after the stage before it has returned, and a call
\* that ends with status 'completed' has made all of them.
C1_FixedStageOrder ==
    LET order == <<[event |-> "invoked", stage |-> "market"],
                   [event |-> "returned", stage |-> "market"],
                   [event |-> "invoked", stage |-> "competitor"],
                   [event |-> "returned", stage |-> "competitor"],
                   [event |-> "invoked", stage |-> "technical"],
                   [event |-> "returned", stage |-> "technical"],
                   [event |-> "invoked", stage |-> "financial"],
                   [event |-> "returned", stage |-> "financial"],
                   [event |-> "invoked", stage |-> "strategy"],
                   [event |-> "returned", stage |-> "strategy"]>>
    IN  /\ Len(StageCalls) <= Len(order)
        /\ StageCalls = SubSeq(order, 1, Len(StageCalls))
        /\ Get(results, "status", "") = "completed" => StageCalls = order

\* the second call on one orchestrator has completed after its five stages
C1_Witness ==
    /\ pc = "idle"
    /\ runs = 2
    /\ results.status = "completed"
    /\ Len(StageCalls) = 10

\* C4: on a completed run confidence_score is the truncated unweighted
\* average of five values: 90 or 60 for the market (search successful or
\* not), 85 / 70 / 50 for the competitors (at least 3 / at least 1 / none
\* found), and 100 times the confidence of the technical, financial and
\* strategy outputs (0.85, 0.75 and 0.85).
C4_UnweightedAverage ==
    Get(results, "status", "") = "completed" =>
        LET searched == /\ env.has_key
                        /\ ~env.responses.market_size.raises
                        /\ env.responses.market_size.status_code = 200
            found == results.competitor_analysis.competitors_found
            market == IF searched THEN 90 ELSE 60
            competitors == IF found >= 3 THEN 85 ELSE IF found >= 1 THEN 70
                           ELSE 50
            technical == results.technical_analysis.confidence
            financial == results.financial_analysis.confidence
            strategy == results.strategy.confidence
        IN  /\ technical = 85 /\ financial = 75 /\ strategy = 85
            /\ 5 * results.confidence_score
                   <= market + competitors + technical + financial + strategy
            /\ 5 * (results.confidence_score + 1)
                   > market + competitors + technical + financial + strategy

\* a successful market search and one competitor found: (90 + 70 + 85 + 75
\* + 85) / 5 = 81
C4_Witness ==
    /\ Get(results, "status", "") = "completed"
    /\ Get(results.market_analysis.market_research, "search_successful", FALSE)
    /\ results.competitor_analysis.competitors_found = 1
    /\ results.confidence_score = 81

\* C2: for every score the verdict is one of GO, PIVOT and NO-GO, chosen by
\* the thresholds: GO iff score >= 7.5, PIVOT iff 5.0 <= score < 7.5, NO-GO
\* iff score < 5.0; generate_recommendations and _determine_verdict give the
\* same label for the same score.
C2_VerdictByThreshold ==
    tool = "verdict" =>
        /\ ret.controller \in {VerdictGo, VerdictPivot, VerdictNoGo}
        /\ ret.advisor.verdict = ret.controller
        /\ (ret.controller = VerdictGo) <=> (arg >= 750)
        /\ (ret.controller = VerdictPivot) <=> (arg >= 500 /\ arg < 750)
        /\ (ret.controller = VerdictNoGo) <=> (arg < 500)

\* the score 7.5 itself, which is a GO for both functions
C2_Witness ==
    /\ tool = "verdict"
    /\ arg = 750
    /\ ret.advisor.verdict = VerdictGo
    /\ ret.controller = VerdictGo

AllFiveInRange(data) ==
    \A i \in 1..Len(ControllerWeightKeys) :
        /\ ControllerWeightKeys[i] \in DOMAIN data
        /\ "confidence" \in DOMAIN data[ControllerWeightKeys[i]]
        /\ data[ControllerWeightKeys[i]].confidence \in 0..100

\* C3: the weights of both score functions sum to exactly 1 (100 hundredths);
\* the score of calculate_validation_score lies in 0..10, and so does the
\* score of _calculate_validation_score when all five task results are
\* present with a confidence in 0..1; being a weighted average, five equal
\* confidences c give the score 10 * c.
C3_WeightedAverageInRange ==
    /\ SumOver(AdvisorWeightKeys, AdvisorWeights) = 100
    /\ SumOver(ControllerWeightKeys, ControllerWeights) = 100
    /\ tool = "advisor_score" => ret.overall_score \in 0..1000
    /\ (tool = "controller_score" /\ AllFiveInRange(arg)) =>
        /\ ret \in 0..1000
        /\ \A c \in 0..100 :
            (\A i \in 1..Len(ControllerWeightKeys) :
                arg[ControllerWeightKeys[i]].confidence = c) => ret = 10 * c

\* five task results with confidence 1.0 give the top score 10.0
C3_Witness ==
    /\ tool = "controller_score"
    /\ AllFiveInRange(arg)
    /\ \A i \in 1..Len(ControllerWeightKeys) :
        arg[ControllerWeightKeys[i]].confidence = 100
    /\ ret = 1000

\* C5: in every result of calculate_tam_sam_som, with the TAM taken from the
\* search insights, from the industry baseline or from the exception
\* fallback, SAM is 15% of TAM and SOM is 5% of SAM, hence SOM <= SAM <= TAM.
C5_FixedShares ==
    tool = "tam_sam_som" =>
        /\ DecScale(ret.SAM.value, 100, 0) = DecScale(ret.TAM.value, 15, 0)
        /\ DecScale(ret.SOM.value, 100, 0) = DecScale(ret.SAM.value, 5, 0)
        /\ DecLessEq(ret.SOM.value, ret.SAM.value)
        /\ DecLessEq(ret.SAM.value, ret.TAM.value)

\* a TAM of 15.79 billion read from an insight: SAM 2.3685 billion and SOM
\* 118.425 million
C5_Witness ==
    /\ tool = "tam_sam_som"
    /\ ret.data_source = "real_search"
    /\ ret.TAM.value = Dec(1579, 7)
    /\ ret.SAM.value = Dec(23685, 5)
    /\ ret.SOM.value = Dec(118425, 3)

\* the whole number a projection stands for is at most limit and misses it
\* by less than one when limit is not whole, by at most one when it is
IsTruncationOf(year, limit) ==
    /\ year.whole = DecFloor(limit)
    /\ year.below \in {0, 1}
    /\ year.below = 1 => (limit.e >= 0 /\ limit.m # 0)

\* year <= later for two projections
NotAbove(year, later) ==
    \/ DecLess(year.whole, later.whole)
    \/ year.whole = later.whole /\ year.below >= later.below

MarketInputs(e) ==
    <<e.has_key, e.responses.market_size, e.responses.market_trends>>
CompetitorInputs(e) ==
    <<e.has_key, e.responses.competitors, e.responses.companies,
      e.responses.detail, e.responses.gaps>>

\* an earlier call on this orchestrator completed for the same idea
SameIdeaBefore == "results" \in DOMAIN prev /\ prev.idea = idea

\* the stage output under key is there and equals that of the earlier call
SameOutput(key) == results[key] = prev.results[key]

\* the TAM the market stage handed on, as the financial stage reads it
TamFormatted(res) == res.market_analysis.market_opportunity.TAM.formatted

\* the stages other than the financial one: an output is determined by the
\* idea and by what the stage itself receives
OthersDetermined ==
    /\ ("market_analysis" \in DOMAIN results
        /\ MarketInputs(env) = MarketInputs(prev.env))
            => SameOutput("market_analysis")
    /\ ("competitor_analysis" \in DOMAIN results
        /\ CompetitorInputs(env) = CompetitorInputs(prev.env))
            => SameOutput("competitor_analysis")
    /\ "technical_analysis" \in DOMAIN results
            => SameOutput("technical_analysis")
    /\ "strategy" \in DOMAIN results => SameOutput("strategy")

\* C7 as stated: every stage's output is determined by the idea and the
\* search responses that stage itself receives, whatever the other stages
\* returned and whatever was validated before.  The financial stage makes no
\* search, so it would return the same for the same idea.
C7_StagesIndependent ==
    SameIdeaBefore =>
        /\ OthersDetermined
        /\ "financial_analysis" \in DOMAIN results
                => SameOutput("financial_analysis")

\* C7, amended: the market, competitor, technical and strategy outputs are
\* determined by the idea and the stage's own search responses; the
\* financial output is determined by the idea and the TAM that the market
\* stage returned in the same call; no output depends on an earlier call.
C7_FinancialReadsMarket ==
    SameIdeaBefore =>
        /\ OthersDetermined
        /\ ("financial_analysis" \in DOMAIN results
            /\ TamFormatted(results) = TamFormatted(prev.results))
                => SameOutput("financial_analysis")

\* a second call for the same idea whose market search answers as before
\* while the competitor search answers differently: same market, financial
\* and strategy outputs, another competitor output
C7_Witness ==
    /\ pc = "finish"
    /\ SameIdeaBefore
    /\ MarketInputs(env) = MarketInputs(prev.env)
    /\ CompetitorInputs(env) # CompetitorInputs(prev.env)
    /\ SameOutput("financial_analysis")
    /\ ~SameOutput("competitor_analysis")

\* no request occurs twice in a request log
NoRequestTwice(log) ==
    \A i, j \in 1..Len(log) : log[i].request = log[j].request => i = j

\* a search of the stage's first tool failed: the key is missing, or a
\* request of search_market_data or find_competitors raised or was refused
SearchFailed ==
    \/ ~arg.has_key
    \/ \E i \in 1..Len(ret.search.requests) :
            ret.search.requests[i].outcome # "ok"

\* the tool returned an error value and the stage went on with fallback data
ErrorAndFallback ==
    /\ "error" \in DOMAIN ret.search.result
    /\ tool = "market_analyze" =>
        /\ ret.stage.result.data_source = <<"I", "n", "d", "u", "s", "t", "r", "y", " ", "b", "a", "s", "e", "l", "i", "n", "e", "s">>
        /\ ret.stage.result.confidence = 60
        /\ ret.stage.result.market_research = ret.search.result
        /\ "formatted" \in DOMAIN ret.stage.result.market_opportunity.TAM
    /\ tool = "competitor_analyze" =>
        /\ ret.stage.result.data_source = <<"L", "i", "m", "i", "t", "e", "d", " ", "d", "a", "t", "a">>
        /\ ret.stage.result.confidence = 65
        /\ ret.stage.result.competitors_found = 0
        /\ ret.stage.result.competitor_list = <<>>
        /\ ret.stage.result.market_gaps = DefaultGaps

\* find_competitors made its follow-up search and the answer was not 200
FollowUpRefused ==
    /\ tool = "competitor_analyze"
    /\ Len(ret.search.requests) = 2
    /\ ret.search.requests[2].outcome = "refused"

\* C8 as stated: no stage retries a failed search; whenever a search request
\* of search_market_data or find_competitors fails (key missing, non-200
\* response or exception) the request is not issued again, the tool returns
\* an error value and the stage continues with fallback data.
C8_ErrorOnEveryFailure ==
    tool \in {"market_analyze", "competitor_analyze"} =>
        /\ NoRequestTwice(ret.stage.requests)
        /\ SearchFailed => ErrorAndFallback

\* C8, amended: no request is issued twice.  When the key is missing, the
\* first search fails, or the follow-up search of find_competitors raises,
\* the tool returns an error value and the stage continues with fallback
\* data.  When the follow-up search is answered with a status other than
\* 200, the failure is ignored: find_competitors returns the competitors of
\* its first search as a successful result.
C8_NoRetry ==
    tool \in {"market_analyze", "competitor_analyze"} =>
        /\ NoRequestTwice(ret.stage.requests)
        /\ (SearchFailed /\ ~FollowUpRefused) => ErrorAndFallback
        /\ FollowUpRefused =>
            /\ "error" \notin DOMAIN ret.search.result
            /\ ret.search.result.search_successful
            /\ ret.search.result.count < 3
            /\ ret.stage.result.competitor_list = ret.search.result.competitors
            /\ ret.stage.result.data_source = <<"R", "e", "a", "l", " ", "w", "e", "b", " ", "s", "e", "a", "r", "c", "h", " ", "v", "i", "a", " ", "S", "e", "r", "p", "e", "r", " ", "A", "P", "I">>

\* the competitor search is refused: one request, an error value, and the
\* stage reports no competitors, the default gaps and 'Limited data'
C8_Witness ==
    /\ tool = "competitor_analyze"
    /\ arg.has_key
    /\ Len(ret.stage.requests) = 1
    /\ ret.stage.requests[1].outcome = "refused"
    /\ ErrorAndFallback

At2(d, k1, k2, default) ==
    IF k1 \in DOMAIN d /\ k2 \in DOMAIN d[k1] THEN d[k1][k2] ELSE default
At3(d, k1, k2, k3, default) ==
    IF k1 \in DOMAIN d THEN At2(d[k1], k2, k3, default) ELSE default
At4(d, k1, k2, k3, k4, default) ==
    IF k1 \in DOMAIN d THEN At3(d[k1], k2, k3, k4, default) ELSE default

IsReal(source) ==
    /\ Len(source) >= 4
    /\ source[1] = "R" /\ source[2] = "e" /\ source[3] = "a" /\ source[4] = "l"

\* C10: for a result record in which any of the stage maps or of their
\* inner fields is missing, _create_summary returns all nine keys, each the
\* field's value when it is there and otherwise its default: 0 for score and
\* competitors_found, no recommendations, 'Unknown' for verdict, market_size,
\* technical_complexity, initial_investment and break_even, 'Estimated' for
\* the two data qualities; at most three recommendations are kept.
C10_DefaultsForAbsentFields ==
    tool = "create_summary" =>
        LET recommendations == At2(arg, "strategy", "recommendations", <<>>)
        IN  /\ DOMAIN ret =
                {"score", "verdict", "market_size", "competitors_found",
                 "technical_complexity", "initial_investment", "break_even",
                 "top_recommendations", "data_quality"}
            /\ ret.score = At2(arg, "strategy", "score", 0)
            /\ ret.verdict = At2(arg, "strategy", "verdict", <<"U", "n", "k", "n", "o", "w", "n">>)
            /\ ret.market_size =
                At4(arg, "market_analysis", "market_opportunity", "TAM",
                    "formatted", <<"U", "n", "k", "n", "o", "w", "n">>)
            /\ ret.competitors_found =
                At2(arg, "competitor_analysis", "competitors_found", 0)
            /\ ret.technical_complexity =
                At3(arg, "technical_analysis", "complexity", "complexity",
                    <<"U", "n", "k", "n", "o", "w", "n">>)
            /\ ret.initial_investment =
                At3(arg, "financial_analysis", "startup_costs",
                    "formatted_total", <<"U", "n", "k", "n", "o", "w", "n">>)
            /\ ret.break_even =
                At3(arg, "financial_analysis", "break_even_analysis",
                    "break_even_timeline", <<"U", "n", "k", "n", "o", "w", "n">>)
            /\ ret.top_recommendations =
                [i \in 1..(IF Len(recommendations) < 3
                           THEN Len(recommendations) ELSE 3)
                    |-> recommendations[i]]
            /\ ret.data_quality.market =
                (IF IsReal(At2(arg, "market_analysis", "data_source", <<>>))
                 THEN "Real Research" ELSE "Estimated")
            /\ ret.data_quality.competitors =
                (IF IsReal(At2(arg, "competitor_analysis", "data_source", <<>>))
                 THEN "Real Search" ELSE "Estimated")

\* a record with a strategy map that has only a score and a market map
\* without TAM: the score is kept, everything else is a default
C10_Witness ==
    /\ tool = "create_summary"
    /\ DOMAIN arg = {"idea", "status", "strategy", "market_analysis"}
    /\ DOMAIN arg.strategy = {"score"}
    /\ "data_source" \notin DOMAIN arg.market_analysis
    /\ "market_opportunity" \in DOMAIN arg.market_analysis
    /\ ret.score = 720
    /\ ret.verdict = <<"U", "n", "k", "n", "o", "w", "n">>
    /\ ret.market_size = <<"U", "n", "k", "n", "o", "w", "n">>
    /\ ret.top_recommendations = <<>>
    /\ ret.data_quality.market = "Estimated"

\* validate_idea has returned its record
Returned == pc = "idle" /\ runs > 0

\* the stage whose call raised, if one did
RaisedStage ==
    {calls[i].stage : i \in {j \in 1..Len(calls) :
        calls[j].event = "raised" /\ calls[j].stage # "callback"}}

\* the stages that returned in the current call
ReturnedStages ==
    {calls[i].stage : i \in {j \in 1..Len(calls) : calls[j].event = "returned"}}

\* C11: validate_idea always returns the result record, with status
\* 'completed' or 'error' and never 'processing'; when a stage or the
\* progress callback raises the status is 'error' and an 'error' message is
\* present; when a stage raises, the outputs of the stages that returned
\* before are kept in the record and the raising stage is the last one
\* invoked.
C11_ExceptionsBecomeErrorRecords ==
    Returned =>
        LET last == calls[Len(calls)]
            raised == Len(calls) > 0 /\ last.event = "raised"
            stage_keys == [market |-> "market_analysis",
                           competitor |-> "competitor_analysis",
                           technical |-> "technical_analysis",
                           financial |-> "financial_analysis",
                           strategy |-> "strategy"]
        IN  /\ results.status \in {"completed", "error"}
            /\ results.status = "error" <=> raised
            /\ results.status = "error" <=> "error" \in DOMAIN results
            /\ \A i \in 1..Len(calls) :
                    calls[i].event = "raised" => i = Len(calls)
            /\ \A stage \in ReturnedStages :
                    stage_keys[stage] \in DOMAIN results
            /\ RaisedStage \cap ReturnedStages = {}

\* the financial stage raises: the record has status 'error' and keeps the
\* market, competitor and technical outputs; strategy was never invoked
C11_Witness ==
    /\ Returned
    /\ RaisedStage = {"financial"}
    /\ results.status = "error"
    /\ {"market_analysis", "competitor_analysis", "technical_analysis"}
            \subseteq DOMAIN results
    /\ "strategy" \notin DOMAIN results
    /\ \A i \in 1..Len(calls) :
            calls[i].event = "invoked" => calls[i].stage # "strategy"

\* the stage output keys of a record are those of the first n stages
IsStagePrefix(res, n) ==
    LET keys == <<"market_analysis", "competitor_analysis",
                  "technical_analysis", "financial_analysis", "strategy">>
    IN  \A i \in 1..5 : (keys[i] \in DOMAIN res) <=> (i <= n)

\* C20: in every record validate_idea returns, status 'completed' implies
\* that all five stage outputs, execution_time, confidence_score and summary
\* are present; a record with status 'error' holds the stage outputs of a
\* prefix of the stage order only.
C20_RecordShape ==
    Returned =>
        /\ results.status = "completed" =>
            /\ IsStagePrefix(results, 5)
            /\ {"execution_time", "confidence_score", "summary"}
                    \subseteq DOMAIN results
        /\ results.status = "error" =>
            \E n \in 0..5 : IsStagePrefix(results, n)

\* the technical stage raises: an 'error' record with exactly the market and
\* competitor outputs
C20_Witness ==
    /\ Returned
    /\ results.status = "error"
    /\ RaisedStage = {"technical"}
    /\ IsStagePrefix(results, 2)

\* the idea of the last start_validation call
LastIdea == workflow_state.validation_data.idea

\* the input C13 calls invalid: shorter than 10 characters, or one of the
\* four words in the lower-cased text
InvalidInput(startup_idea) ==
    \/ Len(startup_idea) < 10
    \/ \E word \in { <<"t", "e", "s", "t">>, <<"a", "s", "d", "f">>, <<"1", "2", "3">>, <<"x", "x", "x">> } :
            Contains(Lower(startup_idea), word)

\* C12: after start_validation on an idea that passes the pre-validation
\* check, the returned record has no 'error' key and carries score, verdict
\* and execution_time, the verdict is GO from 7.5, PIVOT from 5.0 and NO-GO
\* below, the five tasks ran once each in routing order without a fallback,
\* and the workflow status is 'completed'.
C12_ValidIdeaCompletes ==
    (starts > 0 /\ PreValidationCheck(LastIdea)) =>
        /\ "error" \notin DOMAIN reply
        /\ {"score", "verdict", "execution_time"} \subseteq DOMAIN reply
        /\ reply.verdict = (IF reply.score >= 750 THEN VerdictGo
                            ELSE IF reply.score >= 500 THEN VerdictPivot
                            ELSE VerdictNoGo)
        /\ reply.execution_time \in Nat
        /\ reply.idea = LastIdea
        /\ executed = [i \in 1..5 |-> [task |-> RoutingRules[i].task,
                                       kind |-> "task"]]
        /\ workflow_state.status = "completed"

\* the idea of tests/test_controller.py (shortened) is accepted after a
\* rejected call and validated as GO with score 8.5
C12_Witness ==
    /\ starts = 2
    /\ LastIdea = <<"A", "n", " ", "A", "I", "-", "p", "o", "w", "e", "r", "e", "d", " ", "p", "e", "r", "s", "o", "n", "a", "l", " ", "f", "i", "n", "a", "n", "c", "e", " ", "a", "p", "p">>
    /\ reply # None
    /\ "error" \notin DOMAIN reply
    /\ reply.score = 850 /\ reply.verdict = VerdictGo
    /\ workflow_state.status = "completed"

\* C13: a start_validation call on an idea shorter than 10 characters or
\* containing 'test', 'asdf', '123' or 'xxx' in lower case returns the error
\* response (error true, message 'Invalid input', status 'error'), executes
\* no task and no fallback, and adds or changes no task result in
\* validation_data.
C13_InvalidInputRejected ==
    [][(starts' = starts + 1 /\ InvalidInput(workflow_state'.validation_data.idea))
        => /\ reply' = [error |-> TRUE, message |-> <<"I", "n", "v", "a", "l", "i", "d", " ", "i", "n", "p", "u", "t">>,
                        status |-> "error"]
           /\ executed' = <<>>
           /\ \A key \in DOMAIN workflow_state'.validation_data \ {"idea"} :
                /\ key \in DOMAIN workflow_state.validation_data
                /\ workflow_state'.validation_data[key]
                        = workflow_state.validation_data[key]]_vars

\* an idea of ten characters or more with 'test' inside a word is rejected
\* on a controller that validated another idea before: nothing is executed
\* and validation_data still holds the five results of the earlier call
C13_Witness ==
    /\ starts = 2
    /\ LastIdea = <<"C", "o", "n", "t", "e", "s", "t", " ", "p", "l", "a", "t", "f", "o", "r", "m">>
    /\ reply = [error |-> TRUE, message |-> <<"I", "n", "v", "a", "l", "i", "d", " ", "i", "n", "p", "u", "t">>,
                status |-> "error"]
    /\ executed = <<>>
    /\ Cardinality(DOMAIN workflow_state.validation_data) = 6

RECURSIVE HasPath(_, _)
\* d[path[1]][path[2]]... can be read without a KeyError
HasPath(d, path) ==
    \/ Len(path) = 0
    \/ /\ Head(path) \in DOMAIN d
       /\ HasPath(d[Head(path)], Tail(path))

\* no search can succeed: no API key, or every request fails
EverySearchFails ==
    \/ ~arg.has_key
    \/ /\ arg.market_responses.market_size \in {Raised, Refused}
       /\ arg.market_responses.market_trends \in {Raised, Refused}
       /\ arg.competitor_responses.competitors \in {Raised, Refused}
       /\ arg.competitor_responses.companies \in {Raised, Refused}
       /\ arg.competitor_responses.gaps \in {Raised, Refused}

\* C14: whatever the search outcome (no API key and failing searches
\* included), each of the five agents returns a record, none raises, each
\* record has a 'confidence' value and the fields tests/test_agents.py
\* reads.
C14_AgentsReturnUsableRecords ==
    tool = "all_agents" =>
        /\ \A agent \in {"market", "competitors", "technical", "financial",
                         "strategy"} :
                /\ "raised" \notin DOMAIN ret[agent]
                /\ "confidence" \in DOMAIN ret[agent]
                /\ ret[agent].confidence \in 0..100
        /\ HasPath(ret.market, <<"market_opportunity", "TAM", "formatted">>)
        /\ Len(ret.market.market_opportunity.TAM.formatted) > 0
        /\ HasPath(ret.competitors, <<"competitors_found">>)
        /\ ret.competitors.competitors_found \in Nat
        /\ HasPath(ret.technical, <<"complexity", "complexity">>)
        /\ HasPath(ret.technical, <<"timeline", "mvp">>)
        /\ HasPath(ret.financial, <<"startup_costs", "formatted_total">>)
        /\ HasPath(ret.financial,
                   <<"break_even_analysis", "break_even_timeline">>)
        /\ HasPath(ret.strategy, <<"score">>)
        /\ HasPath(ret.strategy, <<"verdict">>)

\* the idea of the test with an API key and every request raising: the
\* records are the fallback ones (market confidence 0.6, no competitor)
C14_Witness ==
    /\ tool = "all_agents"
    /\ arg.test_idea = <<"A", "I", "-", "p", "o", "w", "e", "r", "e", "d", " ", "p", "e", "r", "s", "o", "n", "a", "l", " ", "f", "i", "n", "a", "n", "c", "e", " ", "a", "p", "p", " ", "f", "o", "r", " ", "m", "i", "l", "l", "e", "n", "n", "i", "a", "l", "s">>
    /\ arg.has_key
    /\ EverySearchFails
    /\ arg.market_responses.market_size = Raised
    /\ ret.market.confidence = 60
    /\ HasPath(ret.market, <<"market_opportunity", "TAM", "formatted">>)
    /\ HasPath(ret.financial, <<"break_even_analysis", "break_even_timeline">>)
    /\ ret.strategy.score = 720

\* C15: create_action_plan returns the GO plan only for a GO verdict, the
\* PIVOT plan only for a PIVOT verdict and the NO-GO plan for a NO-GO
\* verdict, and the report styles a NO-GO verdict as 'verdict-nogo', a PIVOT
\* verdict as 'verdict-pivot' and a GO verdict as 'verdict-go'.
C15_VerdictSelectsOutput ==
    tool = "action_plan" =>
        LET go == arg \in {VerdictGo, <<"G", "O">>}
            pivot == arg \in {VerdictPivot, <<"P", "I", "V", "O", "T">>}
            nogo == arg \in {VerdictNoGo, <<"N", "O", "-", "G", "O">>}
        IN  /\ ret.plan = PlanGo => go
            /\ ret.plan = PlanPivot => pivot
            /\ nogo => ret.plan = PlanNoGo
            /\ nogo => ret.style.verdict_class = "verdict-nogo"
            /\ pivot => ret.style.verdict_class = "verdict-pivot"
            /\ go => ret.style.verdict_class = "verdict-go"

\* a market size figure can be read from the market data handed to
\* calculate_tam_sam_som
FigureFound ==
    /\ arg.market_data.kind = "json"
    /\ Truthy(ExtractTamValue(arg.market_data))

\* C16: the data_source of calculate_tam_sam_som is 'real_search' only when
\* the TAM value was extracted from the search insights, and it is
\* 'industry_baseline' whenever no figure was found and the TAM comes from
\* the industry baseline table.
C16_DataSourceTellsOrigin ==
    (tool = "tam_sam_som" /\ arg.industry.is_str) =>
        /\ ret.data_source = "real_search" => FigureFound
        /\ ~FigureFound =>
                /\ ret.TAM.value =
                        DecScale(GetIndustryBaseline(arg.industry.text),
                                 1, BillionExponent)
                /\ ret.data_source = "industry_baseline"

\* the total costs calculate_break_even works with, in dollars
TotalOf(costs) ==
    IF costs.kind = "json" THEN Get(costs.doc, "total", 100000) ELSE 100000

RECURSIVE RecoveryMonth(_, _, _, _, _)
\* the first month, capped at 36, at whose end the cumulative profit
\* (revenue from 5,000 growing 15% a month, less the monthly burn) has
\* reached the total costs; money in thousandths of a dollar
RecoveryMonth(month, cumulative_profit, revenue, burn, total) ==
    LET profit_now == cumulative_profit + revenue - burn
    IN  IF profit_now >= total \/ month >= 36 THEN month
        ELSE RecoveryMonth(month + 1, profit_now, Grow(revenue), burn, total)

\* C17: calculate_break_even reports the first month (capped at 36) in which
\* the cumulative profit has recovered the total initial costs, and reports
\* 36 months only when the costs are not recovered before month 36.
C17_ReportsBreakEvenPoint ==
    (tool = "break_even" /\ arg.kind # "malformed" /\ TotalOf(arg) > 0) =>
        ret.months_to_break_even
            = RecoveryMonth(1, 0, 5000 * 1000, TotalOf(arg) * 25,
                            TotalOf(arg) * 1000)

C19_OwnBaselineValue ==
    tool = "industry" =>
        LET listed == Lower(arg.industry) \in DOMAIN Baselines
        IN  /\ listed => ret.baseline = Baselines[Lower(arg.industry)]
            /\ arg.industry = <<"s", "u", "s", "t", "a", "i", "n", "a", "b", "i", "l", "i", "t", "y">> => ret.baseline = Dec(250, 0)
            /\ arg.industry = <<"n", "u", "t", "r", "i", "t", "i", "o", "n">> => ret.baseline = Dec(158, -1)
            /\ arg.industry \in { <<"f", "a", "s", "h", "i", "o", "n">>, <<"t", "r", "a", "v", "e", "l">>, <<"g", "e", "n", "e", "r", "a", "l">> }
                    => ret.baseline = Dec(100, 0)
            /\ arg.industry = <<"s", "u", "s", "t", "a", "i", "n", "a", "b", "i", "l", "i", "t", "y">>
                    => ret.extracted = <<"s", "u", "s", "t", "a", "i", "n", "a", "b", "i", "l", "i", "t", "y">>

\* the percentage validate_idea reports before each stage
StagePercent ==
    [market |-> 20, competitor |-> 40, technical |-> 60, financial |-> 80,
     strategy |-> 90]

\* C21: with a progress callback the percentages reported so far are a
\* beginning of 20, 40, 60, 80, 90, 100 (without one nothing is reported);
\* each stage is invoked right after the report of its own percentage; 100
\* is reported only after all five stages have returned and with
\* confidence_score and summary stored; nothing is reported after a stage
\* has raised.
C21_ProgressInOrder ==
    LET all == <<20, 40, 60, 80, 90, 100>>
        reports == SelectSeq(calls, LAMBDA e : e.event = "progress")
    IN  /\ Len(progress) <= Len(all)
        /\ progress = SubSeq(all, 1, Len(progress))
        /\ progress = [i \in 1..Len(reports) |-> reports[i].percent]
        /\ ~cb => progress = <<>>
        /\ \A i \in 1..Len(calls) :
            /\ (cb /\ calls[i].event = "invoked") =>
                    /\ i > 1
                    /\ calls[i - 1].event = "progress"
                    /\ calls[i - 1].percent = StagePercent[calls[i].stage]
            /\ (calls[i].event = "progress" /\ calls[i].percent = 100) =>
                    /\ \A stage \in DOMAIN StagePercent :
                         \E j \in 1..(i - 1) :
                            /\ calls[j].event = "returned"
                            /\ calls[j].stage = stage
                    /\ {"confidence_score", "summary"} \subseteq DOMAIN results
            /\ (calls[i].event = "raised" /\ calls[i].stage # "callback") =>
                    \A j \in (i + 1)..Len(calls) : calls[j].event # "progress"

\* a call with a callback has completed: all six percentages were reported
C21_Witness ==
    /\ Returned
    /\ cb
    /\ results.status = "completed"
    /\ progress = <<20, 40, 60, 80, 90, 100>>
    /\ Len(calls) = 16

\* |v - tenths * 10^(unit - 1)| <= 0.05 * 10^unit for a decimal v >= 0 and a
\* whole number of tenths of the unit
WithinOneDecimal(v, tenths, unit) ==
    LET k == v.e - unit + 1
    IN  IF k >= 0 THEN tenths = v.m * Pow10(k)
        ELSE IF -k > 9 THEN tenths = 0
        ELSE LET d == v.m - tenths * Pow10(-k)
             IN  2 * (IF d < 0 THEN -d ELSE d) <= Pow10(-k)

\* C22: the market value project_revenue parses from the TAM 'formatted'
\* string has the unit of the TAM value (billions from 1e9 on, millions
\* below) and differs from the TAM value by at most the rounding to one
\* decimal of that unit; the year-3 projection is that market value times
\* the capture rate.
C22_TamSurvivesHandOver ==
    tool = "hand_over" =>
        LET unit == IF DecLess(arg, Dec(1, 9)) THEN 6 ELSE 9
            tenths == DecScale(ret.market_value, 1, 1 - unit)
        IN  /\ "raised" \notin DOMAIN ret.market_value
            /\ "raised" \notin DOMAIN ret.revenue
            /\ ret.multiplier = unit
            /\ ret.formatted[Len(ret.formatted)]
                    = (IF unit = 9 THEN "B" ELSE "M")
            /\ tenths.e >= 0
            /\ WithinOneDecimal(arg, tenths.m * Pow10(tenths.e), unit)
            /\ ret.revenue.year_3.whole
                    = DecFloor(DecTimes(ret.market_value, Dec(1, -3)))

\* a TAM of 999.96 million is written '$1000.0M' and read as 1000 million
C22_Witness ==
    /\ tool = "hand_over"
    /\ arg = Dec(99996, 4)
    /\ ret.formatted = <<"$", "1", "0", "0", "0", ".", "0", "M">>
    /\ ret.multiplier = 6
    /\ ret.market_value = Dec(1, 9)

\* C9: assess_technical_complexity answers 'high' (score 8) when the
\* lower-cased idea contains a high keyword, else 'medium' (5) when it
\* contains a medium keyword, else 'low' (3) when it contains a low keyword,
\* else the default 'medium' (5); analyze returns the timeline of that level.
C9_ComplexityByPrecedence ==
    tool = "technical" =>
        LET idea_lower == Lower(arg)
            level == IF ContainsAny(idea_lower, HighKeywords) THEN "high"
                     ELSE IF ContainsAny(idea_lower, MediumKeywords) THEN "medium"
                     ELSE IF ContainsAny(idea_lower, LowKeywords) THEN "low"
                     ELSE "medium"
        IN  /\ level = "high" =>
                /\ ret.complexity.complexity = LevelHigh
                /\ ret.complexity.score = 8
                /\ ret.timeline.mvp = "6-8 months"
                /\ ret.timeline.launch = "10-12 months"
            /\ level = "medium" =>
                /\ ret.complexity.complexity = LevelMedium
                /\ ret.complexity.score = 5
                /\ ret.timeline.mvp = "3-4 months"
                /\ ret.timeline.launch = "6-8 months"
            /\ level = "low" =>
                /\ ret.complexity.complexity = LevelLow
                /\ ret.complexity.score = 3
                /\ ret.timeline.mvp = "1-2 months"
                /\ ret.timeline.launch = "3-4 months"

\* an idea with a low keyword and no other is 'low' with the low timeline
C9_Witness ==
    /\ tool = "technical"
    /\ ContainsAny(Lower(arg), LowKeywords)
    /\ ~ContainsAny(Lower(arg), HighKeywords)
    /\ ~ContainsAny(Lower(arg), MediumKeywords)
    /\ ret.complexity.complexity = LevelLow
    /\ ret.timeline.mvp = "1-2 months"

=============================================================================
